---- MODULE Spec2Model ----
(***************************************************************************)
(* Run orchestration engine of the agentic SDLC assistant: the stage graph *)
(* of agents/supervisor.py, the stages it invokes, the LangGraph reducer   *)
(* of schemas/workflow_state.py and the run record of the repository.      *)
(***************************************************************************)
EXTENDS Integers, Sequences, FiniteSets, TLC

VARIABLES
    settings,           \* config.settings: dry_run, confluence_url set or not
    pc,                 \* position of run_workflow: a step or a graph node
    st,                 \* the WorkflowState accumulated by the graph
    routed,             \* last value returned by route_after_completeness
    history,            \* stages invoked so far: <<[node, outcome, update]>>
    llm_invocations,    \* agents that invoked the LLM, in call order
    adapter_calls,      \* external adapter (MCP) calls, in call order
    ticket_runs,        \* table ticket_runs: run id -> record
    processed_tickets,  \* table processed_tickets: ticket id -> marker
    calls,              \* run_workflow calls of the deployment: run id -> call
    repo_log,           \* marker operations made on the repository, in order
    poll_queue,         \* ticket ids the current poll still has to trigger
    pending_runs,       \* run ids the current reconcile pass still has to check
    activity_log,       \* events run_workflow wrote to the activity log
    async_stack,        \* run_async calls in progress, outermost first
    async_done,         \* run_async calls that returned or raised, in order
    llm_log_file,       \* records appended to the JSONL file of LLM calls
    llm_call_log,       \* table llm_call_logs: call id -> record
    invoke_ret,         \* what the last invoke_and_log call gave its caller
    ground_truth,       \* table ticket_ground_truth: ticket id -> label
    kpi_reports,        \* POCMetrics returned by compute so far, in call order
    db_session          \* the session of the repository operation last begun

\* the state of the deployment around the single run: callers and jobs
sysvars == <<calls, repo_log, poll_queue, pending_runs>>

\* the state outside the run tables: logs, the async bridge, the KPI side
auxvars == <<async_stack, async_done, llm_log_file, llm_call_log, invoke_ret,
             ground_truth, kpi_reports, db_session>>

vars == <<settings, pc, st, routed, history, llm_invocations, adapter_calls,
          ticket_runs, processed_tickets, calls, repo_log, poll_queue,
          pending_runs, activity_log, async_stack, async_done, llm_log_file,
          llm_call_log, invoke_ret, ground_truth, kpi_reports, db_session>>

\* ---------------------------------------------------------------- values

None == <<>>
Some(v) == <<v>>

\* WorkflowPhase
FETCHING_TICKET == "fetching_ticket"
CHECKING_COMPLETENESS == "checking_completeness"
POSTING_CLARIFICATION == "posting_clarification"
SCOUTING_REPO == "scouting_repo"
FETCHING_CONFLUENCE_DOCS == "fetching_confluence_docs"
PLANNING == "planning"
PROPOSING_CODE == "proposing_code"
SUGGESTING_TESTS == "suggesting_tests"
COMPOSING_PR == "composing_pr"
COMPLETED == "completed"
FAILED == "failed"

WorkflowPhase ==
    {FETCHING_TICKET, CHECKING_COMPLETENESS, POSTING_CLARIFICATION, SCOUTING_REPO,
     FETCHING_CONFLUENCE_DOCS, PLANNING, PROPOSING_CODE, SUGGESTING_TESTS,
     COMPOSING_PR, COMPLETED, FAILED}

\* RunStatus
RUNNING == "running"
COMPLETED_COMPLETE == "completed_complete"
COMPLETED_INCOMPLETE == "completed_incomplete"
RUN_FAILED == "failed"

\* PROutcome
PENDING == "pending"
APPROVED == "approved"
REJECTED == "rejected"
MERGED == "merged"
NOT_CREATED == "not_created"
PROutcome == {PENDING, APPROVED, REJECTED, MERGED, NOT_CREATED}

\* settings.completeness_threshold, in percent
completeness_threshold == 65

\* the one run and ticket of a run_workflow call
RunId == "run1"
TicketId == "PROJ-1"

\* text of an exception (str(exc))
ExcText == "exc"

\* an errors entry: f"{prefix}: {text}" is <<prefix, text>>; a bare str(exc)
\* carries no prefix
PrefixedError(prefix, text) == <<prefix, text>>
BareError(text) == <<"", text>>
ErrorPrefix(e) == e[1]

\* keys merged with operator.add; all the others are overwritten
AppendKeys == {"errors", "llm_call_ids", "mcp_tool_calls"}

Merge_overwrites_lists(state, update) ==
    [k \in DOMAIN state |->
        IF k \in DOMAIN update THEN update[k] ELSE state[k]]

\* LangGraph's merge of a node's partial update into the state
Merge(state, update) ==
    [k \in DOMAIN state |->
        IF k \in DOMAIN update
        THEN IF k \in AppendKeys THEN state[k] \o update[k] ELSE update[k]
        ELSE state[k]]

\* initial_state of run_workflow; the slots it leaves absent read as None
initial_state ==
    [run_id |-> RunId,
     ticket_id |-> TicketId,
     current_phase |-> FETCHING_TICKET,
     is_complete_ticket |-> "None",
     should_stop |-> FALSE,
     errors |-> <<>>,
     llm_call_ids |-> <<>>,
     mcp_tool_calls |-> <<>>,
     total_llm_calls |-> 0,
     completed_at |-> "None",
     ticket_context |-> None,
     completeness_result |-> None,
     repo_context |-> None,
     confluence_context |-> None,
     implementation_plan |-> None,
     code_proposal |-> None,
     test_suggestions |-> None,
     pr_result |-> None]

LaterSlots ==
    {"completeness_result", "repo_context", "confluence_context",
     "implementation_plan", "code_proposal", "test_suggestions", "pr_result"}

\* ---------------------------------------------------------------- routing

route_after_completeness_checks_complete_first(state) ==
    IF state.is_complete_ticket = "True" THEN "repo_scout"
    ELSE "post_clarification"

route_after_completeness_inverted(state) ==
    IF state.should_stop THEN "post_clarification"
    ELSE IF state.is_complete_ticket = "True" THEN "post_clarification"
    ELSE "repo_scout"

route_after_completeness(state) ==
    IF state.should_stop THEN "post_clarification"
    ELSE IF state.is_complete_ticket = "True" THEN "repo_scout"
    ELSE "post_clarification"

\* ---------------------------------------------------------------- stages
\* A stage invocation yields the partial update it returns (update), whether
\* it took a failure return (outcome), and the LLM invocations (llm) and
\* external adapter calls (ext) it issued on the way.

NoUpdate == <<>>

StageFailure(prefix, text, llm, ext) ==
    [outcome |-> "failed",
     update |-> [current_phase |-> FAILED,
                 errors |-> <<PrefixedError(prefix, text)>>,
                 should_stop |-> TRUE],
     llm |-> llm, ext |-> ext]

\* parsed outputs the completeness LLM call can return
CompletenessOutputs ==
    [decision : {"complete", "incomplete"}, completeness_score : {30, 65, 90},
     jira_comment_posted : {FALSE}]

\* results of invoke_llm_structured: a parsed object, or None when the model
\* call raised or its output did not parse (both are logged, not raised)
LLMResults == {None, Some("parsed")}

\* the same for the completeness call, whose parsed object is read
CompletenessLLMResults == {None} \cup {Some(r) : r \in CompletenessOutputs}

\* TicketFetcherAgent.run; fetch is what _fetch_ticket_via_mcp does
TicketFetcherAgent_run(state, fetch) ==
    IF fetch = "ok"
    THEN [outcome |-> "ok",
          update |-> [ticket_context |-> Some("ticket"),
                      current_phase |-> CHECKING_COMPLETENESS,
                      mcp_tool_calls |-> <<"jira_get_issue">>],
          llm |-> <<>>, ext |-> <<"jira_get_issue">>]
    ELSE StageFailure("ticket_fetcher", ExcText, <<>>, <<"jira_get_issue">>)

CompletenessAgent_run_without_guard(state, result) ==
    IF result = None
    THEN StageFailure("completeness_agent", "LLM returned None",
                      <<"CompletenessAgent">>, <<>>)
    ELSE [outcome |-> "ok",
          update |-> [completeness_result |-> result,
                      is_complete_ticket |->
                          IF result[1].completeness_score >= completeness_threshold
                             /\ result[1].decision = "complete"
                          THEN "True" ELSE "False",
                      current_phase |-> CHECKING_COMPLETENESS,
                      llm_call_ids |-> <<"call_completeness">>,
                      total_llm_calls |-> state.total_llm_calls + 1],
          llm |-> <<"CompletenessAgent">>, ext |-> <<>>]

CompletenessAgent_run_above_threshold_only(state, result) ==
    IF state.ticket_context = None
    THEN StageFailure("completeness_agent", "ticket_context is None", <<>>, <<>>)
    ELSE IF result = None
    THEN StageFailure("completeness_agent", "LLM returned None",
                      <<"CompletenessAgent">>, <<>>)
    ELSE [outcome |-> "ok",
          update |-> [completeness_result |-> result,
                      is_complete_ticket |->
                          IF result[1].completeness_score > completeness_threshold
                             /\ result[1].decision = "complete"
                          THEN "True" ELSE "False",
                      current_phase |-> CHECKING_COMPLETENESS,
                      llm_call_ids |-> <<"call_completeness">>,
                      total_llm_calls |-> state.total_llm_calls + 1],
          llm |-> <<"CompletenessAgent">>, ext |-> <<>>]

\* CompletenessAgent.run; result is what invoke_llm_structured returns
CompletenessAgent_run(state, result) ==
    IF state.ticket_context = None
    THEN StageFailure("completeness_agent", "ticket_context is None", <<>>, <<>>)
    ELSE IF result = None
    THEN StageFailure("completeness_agent", "LLM returned None",
                      <<"CompletenessAgent">>, <<>>)
    ELSE [outcome |-> "ok",
          update |-> [completeness_result |-> result,
                      is_complete_ticket |->
                          IF result[1].completeness_score >= completeness_threshold
                             /\ result[1].decision = "complete"
                          THEN "True" ELSE "False",
                      current_phase |-> CHECKING_COMPLETENESS,
                      llm_call_ids |-> <<"call_completeness">>,
                      total_llm_calls |-> state.total_llm_calls + 1],
          llm |-> <<"CompletenessAgent">>, ext |-> <<>>]

PostClarificationAgent_run_posts_in_dry_run(state, dry_run, comment, label) ==
    LET cr == state.completeness_result
        marked == IF cr = None THEN None
                  ELSE Some([cr[1] EXCEPT !.jira_comment_posted = TRUE])
        after == IF comment = "posted" THEN marked ELSE cr
    IN  IF cr = None
        THEN [outcome |-> "failed",
              update |-> [current_phase |-> POSTING_CLARIFICATION,
                          errors |-> <<PrefixedError("post_clarification",
                                                     "completeness_result is None")>>],
              llm |-> <<>>, ext |-> <<>>]
        ELSE IF comment = "raises"
        THEN [outcome |-> "failed",
              update |-> [current_phase |-> POSTING_CLARIFICATION,
                          errors |-> <<PrefixedError("post_clarification", ExcText)>>,
                          completeness_result |-> cr],
              llm |-> <<>>, ext |-> <<"jira_add_comment">>]
        ELSE IF label = "raises"
        THEN [outcome |-> "failed",
              update |-> [current_phase |-> POSTING_CLARIFICATION,
                          errors |-> <<PrefixedError("post_clarification", ExcText)>>,
                          completeness_result |-> after],
              llm |-> <<>>, ext |-> <<"jira_add_comment", "jira_update_issue">>]
        ELSE [outcome |-> "ok",
              update |-> [completeness_result |-> after,
                          current_phase |-> COMPLETED,
                          mcp_tool_calls |-> <<"jira_add_comment">>],
              llm |-> <<>>, ext |-> <<"jira_add_comment", "jira_update_issue">>]

PostClarificationAgent_run_without_guard(state, dry_run, comment, label) ==
    LET cr == state.completeness_result
        marked == IF cr = None THEN None
                  ELSE Some([cr[1] EXCEPT !.jira_comment_posted = TRUE])
        after == IF comment = "posted" THEN marked ELSE cr
    IN  IF dry_run
        THEN [outcome |-> "ok", update |-> [current_phase |-> COMPLETED],
              llm |-> <<>>, ext |-> <<>>]
        ELSE IF comment = "raises"
        THEN [outcome |-> "failed",
              update |-> [current_phase |-> POSTING_CLARIFICATION,
                          errors |-> <<PrefixedError("post_clarification", ExcText)>>,
                          completeness_result |-> cr],
              llm |-> <<>>, ext |-> <<"jira_add_comment">>]
        ELSE IF label = "raises"
        THEN [outcome |-> "failed",
              update |-> [current_phase |-> POSTING_CLARIFICATION,
                          errors |-> <<PrefixedError("post_clarification", ExcText)>>,
                          completeness_result |-> after],
              llm |-> <<>>, ext |-> <<"jira_add_comment", "jira_update_issue">>]
        ELSE [outcome |-> "ok",
              update |-> [completeness_result |-> after,
                          current_phase |-> COMPLETED,
                          mcp_tool_calls |-> <<"jira_add_comment">>],
              llm |-> <<>>, ext |-> <<"jira_add_comment", "jira_update_issue">>]

PostClarificationAgent_run_drops_result(state, dry_run, comment, label) ==
    LET cr == state.completeness_result
        marked == IF cr = None THEN None
                  ELSE Some([cr[1] EXCEPT !.jira_comment_posted = TRUE])
        after == IF comment = "posted" THEN marked ELSE cr
    IN  IF cr = None
        THEN [outcome |-> "failed",
              update |-> [current_phase |-> POSTING_CLARIFICATION,
                          errors |-> <<PrefixedError("post_clarification",
                                                     "completeness_result is None")>>],
              llm |-> <<>>, ext |-> <<>>]
        ELSE IF dry_run
        THEN [outcome |-> "ok", update |-> [current_phase |-> COMPLETED],
              llm |-> <<>>, ext |-> <<>>]
        ELSE IF comment = "raises"
        THEN [outcome |-> "failed",
              update |-> [current_phase |-> POSTING_CLARIFICATION,
                          errors |-> <<PrefixedError("post_clarification", ExcText)>>,
                          completeness_result |-> None],
              llm |-> <<>>, ext |-> <<"jira_add_comment">>]
        ELSE IF label = "raises"
        THEN [outcome |-> "failed",
              update |-> [current_phase |-> POSTING_CLARIFICATION,
                          errors |-> <<PrefixedError("post_clarification", ExcText)>>,
                          completeness_result |-> None],
              llm |-> <<>>, ext |-> <<"jira_add_comment", "jira_update_issue">>]
        ELSE [outcome |-> "ok",
              update |-> [completeness_result |-> after,
                          current_phase |-> COMPLETED,
                          mcp_tool_calls |-> <<"jira_add_comment">>],
              llm |-> <<>>, ext |-> <<"jira_add_comment", "jira_update_issue">>]

\* PostClarificationAgent.run; comment is what _post_jira_comment does
\* ("posted": an id, "no_tool": None, "raises"), label what _apply_jira_label
\* does ("ok", "raises")
PostClarificationAgent_run(state, dry_run, comment, label) ==
    LET cr == state.completeness_result
        marked == IF cr = None THEN None
                  ELSE Some([cr[1] EXCEPT !.jira_comment_posted = TRUE])
        after == IF comment = "posted" THEN marked ELSE cr
    IN  IF cr = None
        THEN [outcome |-> "failed",
              update |-> [current_phase |-> POSTING_CLARIFICATION,
                          errors |-> <<PrefixedError("post_clarification",
                                                     "completeness_result is None")>>],
              llm |-> <<>>, ext |-> <<>>]
        ELSE IF dry_run
        THEN [outcome |-> "ok", update |-> [current_phase |-> COMPLETED],
              llm |-> <<>>, ext |-> <<>>]
        ELSE IF comment = "raises"
        THEN [outcome |-> "failed",
              update |-> [current_phase |-> POSTING_CLARIFICATION,
                          errors |-> <<PrefixedError("post_clarification", ExcText)>>,
                          completeness_result |-> cr],
              llm |-> <<>>, ext |-> <<"jira_add_comment">>]
        ELSE IF label = "raises"
        THEN [outcome |-> "failed",
              update |-> [current_phase |-> POSTING_CLARIFICATION,
                          errors |-> <<PrefixedError("post_clarification", ExcText)>>,
                          completeness_result |-> after],
              llm |-> <<>>, ext |-> <<"jira_add_comment", "jira_update_issue">>]
        ELSE [outcome |-> "ok",
              update |-> [completeness_result |-> after,
                          current_phase |-> COMPLETED,
                          mcp_tool_calls |-> <<"jira_add_comment">>],
              llm |-> <<>>, ext |-> <<"jira_add_comment", "jira_update_issue">>]

\* RepoScoutAgent.run; gather is what _gather_repo_data does
RepoScoutAgent_run(state, gather, result) ==
    IF state.ticket_context = None
    THEN StageFailure("repo_scout", "ticket_context is None", <<>>, <<>>)
    ELSE IF gather = "raises"
    THEN StageFailure("repo_scout", ExcText, <<>>, <<"github_get_contents">>)
    ELSE IF result = None
    THEN StageFailure("repo_scout", "LLM returned None",
                      <<"RepoScoutAgent">>, <<"github_get_contents">>)
    ELSE [outcome |-> "ok",
          update |-> [repo_context |-> Some("repo"),
                      current_phase |-> PLANNING,
                      llm_call_ids |-> <<"call_repo_scout">>,
                      total_llm_calls |-> state.total_llm_calls + 1,
                      mcp_tool_calls |-> <<"github_get_contents">>],
          llm |-> <<"RepoScoutAgent">>, ext |-> <<"github_get_contents">>]

\* ConfluenceAgent.run; gather is what _gather_confluence_data does
ConfluenceAgent_run(state, confluence_url, gather, result) ==
    IF state.ticket_context = None
    THEN StageFailure("confluence_agent", "ticket_context is None", <<>>, <<>>)
    ELSE IF ~confluence_url
    THEN [outcome |-> "ok",
          update |-> [confluence_context |-> Some("not configured"),
                      current_phase |-> PLANNING],
          llm |-> <<>>, ext |-> <<>>]
    ELSE IF gather = "raises"
    THEN StageFailure("confluence_agent", ExcText, <<>>, <<"confluence_search">>)
    ELSE IF result = None
    THEN StageFailure("confluence_agent", "LLM returned None",
                      <<"ConfluenceAgent">>, <<"confluence_search">>)
    ELSE [outcome |-> "ok",
          update |-> [confluence_context |-> Some("docs"),
                      current_phase |-> PLANNING,
                      llm_call_ids |-> <<"call_confluence">>,
                      total_llm_calls |-> state.total_llm_calls + 1,
                      mcp_tool_calls |-> <<"confluence_search">>],
          llm |-> <<"ConfluenceAgent">>, ext |-> <<"confluence_search">>]

PlannerAgent_run_without_count(state, result) ==
    IF state.ticket_context = None \/ state.repo_context = None
    THEN StageFailure("planner", "missing ticket_context or repo_context", <<>>, <<>>)
    ELSE IF result = None
    THEN StageFailure("planner", "LLM returned None", <<"PlannerAgent">>, <<>>)
    ELSE [outcome |-> "ok",
          update |-> [implementation_plan |-> Some("plan"),
                      current_phase |-> PROPOSING_CODE,
                      llm_call_ids |-> <<"call_planner">>,
                      total_llm_calls |-> state.total_llm_calls],
          llm |-> <<"PlannerAgent">>, ext |-> <<>>]

\* PlannerAgent.run
PlannerAgent_run(state, result) ==
    IF state.ticket_context = None \/ state.repo_context = None
    THEN StageFailure("planner", "missing ticket_context or repo_context", <<>>, <<>>)
    ELSE IF result = None
    THEN StageFailure("planner", "LLM returned None", <<"PlannerAgent">>, <<>>)
    ELSE [outcome |-> "ok",
          update |-> [implementation_plan |-> Some("plan"),
                      current_phase |-> PROPOSING_CODE,
                      llm_call_ids |-> <<"call_planner">>,
                      total_llm_calls |-> state.total_llm_calls + 1],
          llm |-> <<"PlannerAgent">>, ext |-> <<>>]

\* CodeProposalAgent.run
CodeProposalAgent_run(state, result) ==
    IF state.ticket_context = None \/ state.implementation_plan = None
    THEN StageFailure("code_proposal", "missing required state", <<>>, <<>>)
    ELSE IF result = None
    THEN StageFailure("code_proposal", "LLM returned None",
                      <<"CodeProposalAgent">>, <<>>)
    ELSE [outcome |-> "ok",
          update |-> [code_proposal |-> Some("proposal"),
                      current_phase |-> SUGGESTING_TESTS,
                      llm_call_ids |-> <<"call_code_proposal">>,
                      total_llm_calls |-> state.total_llm_calls + 1],
          llm |-> <<"CodeProposalAgent">>, ext |-> <<>>]

\* TestAgent.run
TestAgent_run(state, result) ==
    IF state.ticket_context = None \/ state.implementation_plan = None
    THEN StageFailure("test_agent", "missing required state", <<>>, <<>>)
    ELSE IF result = None
    THEN StageFailure("test_agent", "LLM returned None", <<"TestAgent">>, <<>>)
    ELSE [outcome |-> "ok",
          update |-> [test_suggestions |-> Some("tests"),
                      current_phase |-> COMPOSING_PR,
                      llm_call_ids |-> <<"call_test">>,
                      total_llm_calls |-> state.total_llm_calls + 1],
          llm |-> <<"TestAgent">>, ext |-> <<>>]

\* the PR composer stage, after the stage contract: it needs the ticket and
\* the code proposal, asks the code host for a pull request, and fills
\* pr_result; create is what create_pull_request does
PRComposerAgent_run(state, dry_run, create) ==
    IF state.ticket_context = None \/ state.code_proposal = None
    THEN StageFailure("pr_composer", "missing required state", <<>>, <<>>)
    ELSE IF dry_run
    THEN [outcome |-> "ok",
          update |-> [pr_result |-> Some([status |-> "skipped", pr_url |-> "None", pr_number |-> "None"]),
                      current_phase |-> COMPLETED],
          llm |-> <<>>, ext |-> <<>>]
    ELSE IF create = "raises"
    THEN StageFailure("pr_composer", ExcText, <<>>, <<"github_create_pull_request">>)
    ELSE [outcome |-> "ok",
          update |-> [pr_result |-> Some([status |-> "created", pr_url |-> "url", pr_number |-> "7"]),
                      current_phase |-> COMPLETED,
                      mcp_tool_calls |-> <<"github_create_pull_request">>],
          llm |-> <<>>, ext |-> <<"github_create_pull_request">>]

end_workflow_node_keeps_phase(state) ==
    [completed_at |-> "ts"]

\* end_workflow_node
end_workflow_node(state) ==
    [current_phase |-> COMPLETED, completed_at |-> "ts"]

\* ---------------------------------------------------------------- repository

NoRows == <<>>

\* nothing logged, no bridge call, no KPI data
InitAux ==
    /\ activity_log = <<>>
    /\ async_stack = <<>>
    /\ async_done = <<>>
    /\ llm_log_file = <<>>
    /\ llm_call_log = NoRows
    /\ invoke_ret = None
    /\ ground_truth = NoRows
    /\ kpi_reports = <<>>
    /\ db_session = None

\* TicketRepository.create_run
create_run(runs, run_id, ticket_id) ==
    (run_id :> [ticket_id |-> ticket_id, status |-> RUNNING,
                error_occurred |-> FALSE, error_phase |-> "None",
                pr_outcome |-> NOT_CREATED, pr_number |-> "None",
                total_llm_calls |-> 0, completed_at |-> "None"]) @@ runs

mark_ticket_queued_keeps_first_run(markers, ticket_id, run_id) ==
    IF ticket_id \in DOMAIN markers
    THEN [markers EXCEPT ![ticket_id].reprocess_requested = FALSE]
    ELSE (ticket_id :> [last_run_id |-> run_id, reprocess_requested |-> FALSE])
         @@ markers

mark_ticket_queued_keeps_flag(markers, ticket_id, run_id) ==
    IF ticket_id \in DOMAIN markers
    THEN [markers EXCEPT ![ticket_id].last_run_id = run_id]
    ELSE (ticket_id :> [last_run_id |-> run_id, reprocess_requested |-> FALSE])
         @@ markers

\* TicketRepository.mark_ticket_queued
mark_ticket_queued(markers, ticket_id, run_id) ==
    (ticket_id :> [last_run_id |-> run_id, reprocess_requested |-> FALSE]) @@ markers

\* TicketRepository.is_ticket_processed
is_ticket_processed(markers, ticket_id) ==
    IF ticket_id \notin DOMAIN markers THEN FALSE
    ELSE ~markers[ticket_id].reprocess_requested

\* TicketRepository.update_run
update_run(runs, run_id, updates) ==
    IF run_id \in DOMAIN runs
    THEN [r \in DOMAIN runs |-> IF r = run_id THEN Merge(runs[r], updates) ELSE runs[r]]
    ELSE runs

get_db_session_without_rollback(before, after, ok) == after

\* get_db_session around one repository operation: after is the table as the
\* operation writes it; commit when the body ends, rollback when it raises
get_db_session(before, after, ok) == IF ok THEN after ELSE before

finalize_run_pending_with_any_pr_result(runs, run_id, state) ==
    LET error_occurred == state.errors # <<>>
        status == IF error_occurred THEN RUN_FAILED
                  ELSE IF state.is_complete_ticket = "False" THEN COMPLETED_INCOMPLETE
                  ELSE COMPLETED_COMPLETE
        pr_outcome == IF state.pr_result # None THEN PENDING ELSE NOT_CREATED
        pr_number == IF state.pr_result # None THEN state.pr_result[1].pr_number
                     ELSE "None"
    IN  update_run(runs, run_id,
                   [status |-> status,
                    completed_at |-> "ts",
                    pr_outcome |-> pr_outcome,
                    pr_number |-> pr_number,
                    total_llm_calls |-> state.total_llm_calls,
                    error_occurred |-> error_occurred,
                    error_phase |-> IF error_occurred THEN state.current_phase
                                    ELSE "None"])

finalize_run_unknown_is_incomplete(runs, run_id, state) ==
    LET error_occurred == state.errors # <<>>
        status == IF error_occurred THEN RUN_FAILED
                  ELSE IF state.is_complete_ticket # "True" THEN COMPLETED_INCOMPLETE
                  ELSE COMPLETED_COMPLETE
        pr_outcome == IF state.pr_result # None
                         /\ state.pr_result[1].pr_url \notin {"None", ""}
                      THEN PENDING ELSE NOT_CREATED
        pr_number == IF state.pr_result # None THEN state.pr_result[1].pr_number
                     ELSE "None"
    IN  update_run(runs, run_id,
                   [status |-> status,
                    completed_at |-> "ts",
                    pr_outcome |-> pr_outcome,
                    pr_number |-> pr_number,
                    total_llm_calls |-> state.total_llm_calls,
                    error_occurred |-> error_occurred,
                    error_phase |-> IF error_occurred THEN state.current_phase
                                    ELSE "None"])

\* TicketRepository.finalize_run
finalize_run(runs, run_id, state) ==
    LET error_occurred == state.errors # <<>>
        status == IF error_occurred THEN RUN_FAILED
                  ELSE IF state.is_complete_ticket = "False" THEN COMPLETED_INCOMPLETE
                  ELSE COMPLETED_COMPLETE
        pr_outcome == IF state.pr_result # None
                         /\ state.pr_result[1].pr_url \notin {"None", ""}
                      THEN PENDING ELSE NOT_CREATED
        pr_number == IF state.pr_result # None THEN state.pr_result[1].pr_number
                     ELSE "None"
    IN  update_run(runs, run_id,
                   [status |-> status,
                    completed_at |-> "ts",
                    pr_outcome |-> pr_outcome,
                    pr_number |-> pr_number,
                    total_llm_calls |-> state.total_llm_calls,
                    error_occurred |-> error_occurred,
                    error_phase |-> IF error_occurred THEN state.current_phase
                                    ELSE "None"])

\* TicketRepository.request_reprocess: nothing happens without a marker
request_reprocess(markers, ticket_id) ==
    IF ticket_id \in DOMAIN markers
    THEN [markers EXCEPT ![ticket_id].reprocess_requested = TRUE]
    ELSE markers

set_pr_outcome_stamps_completed_at(runs, run_id, outcome) ==
    update_run(runs, run_id, [pr_outcome |-> outcome, completed_at |-> "resolved_ts"])

set_pr_outcome_reopens_run(runs, run_id, outcome) ==
    update_run(runs, run_id, [pr_outcome |-> outcome, status |-> RUNNING])

\* TicketRepository.set_pr_outcome
set_pr_outcome(runs, run_id, outcome) ==
    update_run(runs, run_id, [pr_outcome |-> outcome])

\* TicketRepository.get_pending_pr_runs
get_pending_pr_runs(runs) ==
    {r \in DOMAIN runs : runs[r].pr_outcome = PENDING}

\* ---------------------------------------------------------------- run_workflow

GraphNodes ==
    {"fetch_ticket", "completeness_check", "post_clarification", "repo_scout",
     "confluence_docs", "planner", "code_proposal", "test_suggestion",
     "pr_composer", "end_workflow"}

\* langgraph END: graph.invoke returns to run_workflow
END == "__end__"

graph_edges_planner_before_confluence(node) ==
    CASE node = "fetch_ticket" -> "completeness_check"
      [] node = "post_clarification" -> "end_workflow"
      [] node = "repo_scout" -> "planner"
      [] node = "planner" -> "confluence_docs"
      [] node = "confluence_docs" -> "code_proposal"
      [] node = "code_proposal" -> "test_suggestion"
      [] node = "test_suggestion" -> "pr_composer"
      [] node = "pr_composer" -> "end_workflow"
      [] node = "end_workflow" -> END

graph_edges_pr_composer_to_end(node) ==
    CASE node = "fetch_ticket" -> "completeness_check"
      [] node = "post_clarification" -> "end_workflow"
      [] node = "repo_scout" -> "confluence_docs"
      [] node = "confluence_docs" -> "planner"
      [] node = "planner" -> "code_proposal"
      [] node = "code_proposal" -> "test_suggestion"
      [] node = "test_suggestion" -> "pr_composer"
      [] node = "pr_composer" -> END
      [] node = "end_workflow" -> END

\* build_graph: the unconditional edges (completeness_check has the
\* conditional edge route_after_completeness)
graph_edges(node) ==
    CASE node = "fetch_ticket" -> "completeness_check"
      [] node = "post_clarification" -> "end_workflow"
      [] node = "repo_scout" -> "confluence_docs"
      [] node = "confluence_docs" -> "planner"
      [] node = "planner" -> "code_proposal"
      [] node = "code_proposal" -> "test_suggestion"
      [] node = "test_suggestion" -> "pr_composer"
      [] node = "pr_composer" -> "end_workflow"
      [] node = "end_workflow" -> END

\* the state run_workflow builds when graph.invoke raises
exception_state(exc) ==
    [initial_state EXCEPT !.current_phase = FAILED,
                          !.errors = <<BareError(exc)>>,
                          !.completed_at = "ts"]

Init ==
    /\ settings \in [dry_run : BOOLEAN, confluence_url : BOOLEAN]
    /\ pc = "init_db"
    /\ st = initial_state
    /\ routed = "none"
    /\ history = <<>>
    /\ llm_invocations = <<>>
    /\ adapter_calls = <<>>
    /\ ticket_runs = NoRows
    /\ processed_tickets \in
         {NoRows,
          "PROJ-1" :> [last_run_id |-> "run0", reprocess_requested |-> TRUE]}
    /\ calls = NoRows
    /\ repo_log = <<>>
    /\ poll_queue = {}
    /\ pending_runs = {}
    /\ InitAux

\* init_db(), outside any try: a database error leaves run_workflow
init_db ==
    /\ pc = "init_db"
    /\ \E ok \in BOOLEAN : pc' = IF ok THEN "create_run" ELSE "raised"
    /\ UNCHANGED <<settings, st, routed, history, llm_invocations, adapter_calls,
                   ticket_runs, processed_tickets>>
    /\ UNCHANGED sysvars
    /\ UNCHANGED <<activity_log, auxvars>>

\* _repo.create_run(run_id, ticket_id), outside any try
run_create_run ==
    /\ pc = "create_run"
    /\ \E ok \in BOOLEAN :
         IF ok
         THEN /\ ticket_runs' = create_run(ticket_runs, RunId, TicketId)
              /\ pc' = "mark_ticket_queued"
         ELSE /\ pc' = "raised"
              /\ UNCHANGED ticket_runs
    /\ UNCHANGED <<settings, st, routed, history, llm_invocations, adapter_calls,
                   processed_tickets>>
    /\ UNCHANGED sysvars
    /\ UNCHANGED <<activity_log, auxvars>>

\* _repo.mark_ticket_queued(ticket_id, run_id), outside any try
run_mark_ticket_queued ==
    /\ pc = "mark_ticket_queued"
    /\ \E ok \in BOOLEAN :
         IF ok
         THEN /\ processed_tickets' = mark_ticket_queued(processed_tickets, TicketId, RunId)
              /\ pc' = "fetch_ticket"
         ELSE /\ pc' = "raised"
              /\ UNCHANGED processed_tickets
    /\ UNCHANGED <<settings, st, routed, history, llm_invocations, adapter_calls,
                   ticket_runs>>
    /\ UNCHANGED sysvars
    /\ UNCHANGED <<activity_log, auxvars>>

\* a node returns: its update is merged and the graph moves on to next
NodeReturns(node, res, next) ==
    /\ st' = Merge(st, res.update)
    /\ history' = Append(history, [node |-> node, outcome |-> res.outcome,
                                   update |-> res.update])
    /\ llm_invocations' = llm_invocations \o res.llm
    /\ adapter_calls' = adapter_calls \o res.ext
    /\ pc' = IF next = END THEN "finalize_run" ELSE next

\* a node raises (its entry logging and prompt building are outside its
\* try): graph.invoke raises and run_workflow builds the exception state
NodeRaises(node) ==
    /\ st' = exception_state(ExcText)
    /\ history' = Append(history, [node |-> node, outcome |-> "raised",
                                   update |-> NoUpdate])
    /\ pc' = "finalize_run"
    /\ UNCHANGED <<llm_invocations, adapter_calls>>

fetch_ticket_node ==
    /\ pc = "fetch_ticket"
    /\ \/ \E fetch \in {"ok", "raises"} :
            NodeReturns("fetch_ticket", TicketFetcherAgent_run(st, fetch),
                        graph_edges("fetch_ticket"))
       \/ NodeRaises("fetch_ticket")
    /\ UNCHANGED <<settings, routed, ticket_runs, processed_tickets>>
    /\ UNCHANGED sysvars
    /\ UNCHANGED <<activity_log, auxvars>>

completeness_check_node ==
    /\ pc = "completeness_check"
    /\ \/ /\ \E result \in CompletenessLLMResults :
                NodeReturns("completeness_check", CompletenessAgent_run(st, result),
                            route_after_completeness(
                                Merge(st, CompletenessAgent_run(st, result).update)))
          /\ routed' = route_after_completeness(st')
       \/ /\ NodeRaises("completeness_check")
          /\ UNCHANGED routed
    /\ UNCHANGED <<settings, ticket_runs, processed_tickets>>
    /\ UNCHANGED sysvars
    /\ UNCHANGED <<activity_log, auxvars>>

post_clarification_node ==
    /\ pc = "post_clarification"
    /\ \/ \E comment \in {"posted", "no_tool", "raises"}, label \in {"ok", "raises"} :
            NodeReturns("post_clarification",
                        PostClarificationAgent_run(st, settings.dry_run, comment, label),
                        graph_edges("post_clarification"))
       \/ NodeRaises("post_clarification")
    /\ UNCHANGED <<settings, routed, ticket_runs, processed_tickets>>
    /\ UNCHANGED sysvars
    /\ UNCHANGED <<activity_log, auxvars>>

repo_scout_node ==
    /\ pc = "repo_scout"
    /\ \/ \E gather \in {"ok", "raises"}, result \in LLMResults :
            NodeReturns("repo_scout", RepoScoutAgent_run(st, gather, result),
                        graph_edges("repo_scout"))
       \/ NodeRaises("repo_scout")
    /\ UNCHANGED <<settings, routed, ticket_runs, processed_tickets>>
    /\ UNCHANGED sysvars
    /\ UNCHANGED <<activity_log, auxvars>>

confluence_agent_node ==
    /\ pc = "confluence_docs"
    /\ \/ \E gather \in {"ok", "raises"}, result \in LLMResults :
            NodeReturns("confluence_docs",
                        ConfluenceAgent_run(st, settings.confluence_url, gather, result),
                        graph_edges("confluence_docs"))
       \/ NodeRaises("confluence_docs")
    /\ UNCHANGED <<settings, routed, ticket_runs, processed_tickets>>
    /\ UNCHANGED sysvars
    /\ UNCHANGED <<activity_log, auxvars>>

planner_node ==
    /\ pc = "planner"
    /\ \/ \E result \in LLMResults :
            NodeReturns("planner", PlannerAgent_run(st, result),
                        graph_edges("planner"))
       \/ NodeRaises("planner")
    /\ UNCHANGED <<settings, routed, ticket_runs, processed_tickets>>
    /\ UNCHANGED sysvars
    /\ UNCHANGED <<activity_log, auxvars>>

code_proposal_node ==
    /\ pc = "code_proposal"
    /\ \/ \E result \in LLMResults :
            NodeReturns("code_proposal", CodeProposalAgent_run(st, result),
                        graph_edges("code_proposal"))
       \/ NodeRaises("code_proposal")
    /\ UNCHANGED <<settings, routed, ticket_runs, processed_tickets>>
    /\ UNCHANGED sysvars
    /\ UNCHANGED <<activity_log, auxvars>>

test_suggestion_node ==
    /\ pc = "test_suggestion"
    /\ \/ \E result \in LLMResults :
            NodeReturns("test_suggestion", TestAgent_run(st, result),
                        graph_edges("test_suggestion"))
       \/ NodeRaises("test_suggestion")
    /\ UNCHANGED <<settings, routed, ticket_runs, processed_tickets>>
    /\ UNCHANGED sysvars
    /\ UNCHANGED <<activity_log, auxvars>>

pr_composer_node ==
    /\ pc = "pr_composer"
    /\ \/ \E create \in {"ok", "raises"} :
            NodeReturns("pr_composer", PRComposerAgent_run(st, settings.dry_run, create),
                        graph_edges("pr_composer"))
       \/ NodeRaises("pr_composer")
    /\ UNCHANGED <<settings, routed, ticket_runs, processed_tickets>>
    /\ UNCHANGED sysvars
    /\ UNCHANGED <<activity_log, auxvars>>

\* the terminal node; graph.invoke returns the merged state
end_workflow ==
    /\ pc = "end_workflow"
    /\ NodeReturns("end_workflow",
                   [outcome |-> "ok", update |-> end_workflow_node(st),
                    llm |-> <<>>, ext |-> <<>>],
                   graph_edges("end_workflow"))
    /\ UNCHANGED <<settings, routed, ticket_runs, processed_tickets>>
    /\ UNCHANGED sysvars
    /\ UNCHANGED <<activity_log, auxvars>>

\* _repo.finalize_run inside try/except, then return final_state
run_finalize_run ==
    /\ pc = "finalize_run"
    /\ \E ok \in BOOLEAN :
         /\ ticket_runs' = get_db_session(ticket_runs,
                                          finalize_run(ticket_runs, RunId, st), ok)
         /\ activity_log' = IF ok THEN activity_log
                            ELSE Append(activity_log, "workflow_finalize_failed")
    /\ pc' = "returned"
    /\ UNCHANGED <<settings, st, routed, history, llm_invocations, adapter_calls,
                   processed_tickets>>
    /\ UNCHANGED sysvars
    /\ UNCHANGED auxvars

Next ==
    \/ init_db
    \/ run_create_run
    \/ run_mark_ticket_queued
    \/ fetch_ticket_node
    \/ completeness_check_node
    \/ post_clarification_node
    \/ repo_scout_node
    \/ confluence_agent_node
    \/ planner_node
    \/ code_proposal_node
    \/ test_suggestion_node
    \/ pr_composer_node
    \/ end_workflow
    \/ run_finalize_run

Spec == Init /\ [][Next]_vars

\* ---------------------------------------------------------------- routing alone
\* route_after_completeness applied to any WorkflowState a caller may hand it.

RouteInputs ==
    {[initial_state EXCEPT !.should_stop = s, !.is_complete_ticket = c,
                           !.current_phase = p, !.ticket_context = t] :
        s \in BOOLEAN, c \in {"None", "True", "False"}, p \in WorkflowPhase,
        t \in {None, Some("ticket")}}

InitRoute ==
    /\ settings = [dry_run |-> FALSE, confluence_url |-> FALSE]
    /\ pc = "route_call"
    /\ st \in RouteInputs
    /\ routed = "none"
    /\ history = <<>>
    /\ llm_invocations = <<>>
    /\ adapter_calls = <<>>
    /\ ticket_runs = NoRows
    /\ processed_tickets = NoRows
    /\ calls = NoRows
    /\ repo_log = <<>>
    /\ poll_queue = {}
    /\ pending_runs = {}
    /\ InitAux

route_call ==
    /\ pc = "route_call"
    /\ routed' = route_after_completeness(st)
    /\ pc' = "route_done"
    /\ UNCHANGED <<settings, st, history, llm_invocations, adapter_calls,
                   ticket_runs, processed_tickets>>
    /\ UNCHANGED sysvars
    /\ UNCHANGED <<activity_log, auxvars>>

NextRoute == route_call

SpecRoute == InitRoute /\ [][NextRoute]_vars

\* ---------------------------------------------------------------- deployment
\* The callers of run_workflow (scheduler poll, CLI single run) and the jobs
\* that write the same tables (PR reconciler, metrics server, reprocess
\* requests), with each run_workflow call reduced to its repository steps.

Tickets == {"PROJ-1", "PROJ-2"}

\* run_workflow calls started in one behaviour
MaxRuns == 2

\* marker operations made in one behaviour of SpecMarkers
MaxMarkerCalls == 4

\* run ids (uuid4 in the code): the n-th call gets id n
RunIds == 1..MaxRuns

fetch_ready_ticket_ids_unfiltered(markers, all_ids) == all_ids

\* _fetch_ready_ticket_ids: the ids the search returned, less the processed
fetch_ready_ticket_ids(markers, all_ids) ==
    {tid \in all_ids : ~is_ticket_processed(markers, tid)}

\* the part of a final state that finalize_run reads
Summary(state) ==
    [initial_state EXCEPT
        !.current_phase = state.current_phase,
        !.errors = IF state.errors = <<>> THEN <<>> ELSE <<BareError(ExcText)>>,
        !.is_complete_ticket = state.is_complete_ticket,
        !.pr_result = state.pr_result,
        !.completed_at = "ts"]

\* what graph.invoke, or the except branch after it, hands to finalize_run
GraphOutcomes ==
    {Summary(exception_state(ExcText))} \cup
    {Summary([initial_state EXCEPT !.current_phase = COMPLETED, !.errors = e,
                                   !.is_complete_ticket = c, !.pr_result = pr]) :
        <<e, c, pr>> \in
            {x \in {<<>>, <<BareError(ExcText)>>} \X {"None", "True", "False"} \X
                    {None, Some([status |-> "skipped", pr_url |-> "None", pr_number |-> "None"]),
                     Some([status |-> "created", pr_url |-> "url", pr_number |-> "7"])} :
                /\ x[2] = "None" => (x[1] # <<>> /\ x[3] = None)
                /\ x[2] = "False" => x[3] = None
                /\ x[2] = "True" => (x[1] = <<>> => x[3] # None)}}

\* every state one run returns is one of GraphOutcomes
ReturnedStateInGraphOutcomes ==
    pc = "returned" => Summary(st) \in GraphOutcomes

InitSystem ==
    /\ settings = [dry_run |-> FALSE, confluence_url |-> FALSE]
    /\ pc = "system"
    /\ st = initial_state
    /\ routed = "none"
    /\ history = <<>>
    /\ llm_invocations = <<>>
    /\ adapter_calls = <<>>
    /\ ticket_runs = NoRows
    /\ processed_tickets = NoRows
    /\ calls = NoRows
    /\ repo_log = <<>>
    /\ poll_queue = {}
    /\ pending_runs = {}
    /\ InitAux

runvars == <<settings, pc, st, routed, history, llm_invocations, adapter_calls>>

\* a caller calls run_workflow(ticket_id); seen_processed is what
\* is_ticket_processed(ticket_id) returns at that moment
Starts(caller, ticket_id) ==
    LET run_id == Cardinality(DOMAIN calls) + 1
    IN  /\ run_id <= MaxRuns
        /\ calls' = (run_id :> [caller |-> caller, ticket |-> ticket_id,
                                pc |-> "create_run",
                                seen_processed |->
                                    is_ticket_processed(processed_tickets, ticket_id)])
                     @@ calls

\* the scheduler job runs one workflow at a time (max_instances = 1)
PollerIdle ==
    \A r \in DOMAIN calls :
        calls[r].caller = "poller" => calls[r].pc \in {"returned", "raised"}

\* poll_and_trigger: ticket_ids = _fetch_ready_ticket_ids()
poll_fetch ==
    /\ PollerIdle
    /\ poll_queue = {}
    /\ \E all_ids \in SUBSET Tickets :
          poll_queue' = fetch_ready_ticket_ids(processed_tickets, all_ids)
    /\ UNCHANGED <<runvars, ticket_runs, processed_tickets, calls, repo_log,
                   pending_runs>>
    /\ UNCHANGED <<activity_log, auxvars>>

\* poll_and_trigger: for ticket_id in ticket_ids: run_workflow(ticket_id)
poll_trigger ==
    /\ PollerIdle
    /\ \E ticket_id \in poll_queue :
          /\ Starts("poller", ticket_id)
          /\ poll_queue' = poll_queue \ {ticket_id}
    /\ UNCHANGED <<runvars, ticket_runs, processed_tickets, repo_log, pending_runs>>
    /\ UNCHANGED <<activity_log, auxvars>>

\* main.run_single: run_workflow(ticket_id), whatever the marker says
cli_run_single ==
    /\ \E ticket_id \in Tickets : Starts("cli", ticket_id)
    /\ UNCHANGED <<runvars, ticket_runs, processed_tickets, repo_log, poll_queue,
                   pending_runs>>
    /\ UNCHANGED <<activity_log, auxvars>>

\* run_workflow: init_db(); _repo.create_run(run_id, ticket_id)
wf_create_run ==
    /\ \E r \in DOMAIN calls, ok \in BOOLEAN :
          /\ calls[r].pc = "create_run"
          /\ IF ok
             THEN /\ ticket_runs' = create_run(ticket_runs, r, calls[r].ticket)
                  /\ calls' = [calls EXCEPT ![r].pc = "mark_ticket_queued"]
             ELSE /\ calls' = [calls EXCEPT ![r].pc = "raised"]
                  /\ UNCHANGED ticket_runs
    /\ UNCHANGED <<runvars, processed_tickets, repo_log, poll_queue, pending_runs>>
    /\ UNCHANGED <<activity_log, auxvars>>

\* run_workflow: _repo.mark_ticket_queued(ticket_id, run_id)
wf_mark_ticket_queued ==
    /\ \E r \in DOMAIN calls, ok \in BOOLEAN :
          /\ calls[r].pc = "mark_ticket_queued"
          /\ IF ok
             THEN /\ processed_tickets' =
                        mark_ticket_queued(processed_tickets, calls[r].ticket, r)
                  /\ calls' = [calls EXCEPT ![r].pc = "graph"]
             ELSE /\ calls' = [calls EXCEPT ![r].pc = "raised"]
                  /\ UNCHANGED processed_tickets
    /\ UNCHANGED <<runvars, ticket_runs, repo_log, poll_queue, pending_runs>>
    /\ UNCHANGED <<activity_log, auxvars>>

\* run_workflow: graph.invoke (or its except branch), then
\* _repo.finalize_run inside try/except, then return
wf_invoke_and_finalize ==
    /\ \E r \in DOMAIN calls :
          /\ calls[r].pc = "graph"
          /\ \E stored \in {get_db_session(ticket_runs,
                                            finalize_run(ticket_runs, r, final_state), ok) :
                                final_state \in GraphOutcomes, ok \in BOOLEAN} :
                ticket_runs' = stored
          /\ calls' = [calls EXCEPT ![r].pc = "returned"]
    /\ UNCHANGED <<runvars, processed_tickets, repo_log, poll_queue, pending_runs>>
    /\ UNCHANGED <<activity_log, auxvars>>

\* _reconcile_all: pending_runs = _repo.get_pending_pr_runs()
reconcile_select ==
    /\ pending_runs = {}
    /\ pending_runs' = get_pending_pr_runs(ticket_runs)
    /\ UNCHANGED <<runvars, ticket_runs, processed_tickets, calls, repo_log,
                   poll_queue>>
    /\ UNCHANGED <<activity_log, auxvars>>

\* what get_pr_tool.ainvoke may give: not a dict, an exception, or the PR
\* record with merged (absent = False), state and the states of its reviews
\* (absent or null = none)
PrResponses ==
    [kind : {"not_dict", "raises"}, merged : {FALSE}, state : {"open"},
     reviews : {<<>>}]
    \cup [kind : {"dict"}, merged : BOOLEAN, state : {"open", "closed"},
          reviews : {<<>>, <<"APPROVED">>, <<"COMMENTED">>, <<"CHANGES_REQUESTED">>,
                     <<"COMMENTED", "APPROVED">>, <<"APPROVED", "CHANGES_REQUESTED">>,
                     <<"DISMISSED", "COMMENTED">>}]

check_pr_state_closed_before_merged(tool_found, pr_data) ==
    IF ~tool_found THEN PENDING
    ELSE IF pr_data.kind # "dict" THEN PENDING
    ELSE IF pr_data.state = "closed" THEN REJECTED
    ELSE IF pr_data.merged THEN MERGED
    ELSE IF \E i \in DOMAIN pr_data.reviews : pr_data.reviews[i] = "APPROVED"
    THEN APPROVED
    ELSE PENDING

\* _check_pr_state; tool_found: a tool named get_pull_request is among tools
check_pr_state(tool_found, pr_data) ==
    IF ~tool_found THEN PENDING
    ELSE IF pr_data.kind = "raises" THEN PENDING
    ELSE IF pr_data.kind = "not_dict" THEN PENDING
    ELSE IF pr_data.merged THEN MERGED
    ELSE IF pr_data.state = "closed" THEN REJECTED
    ELSE IF \E i \in DOMAIN pr_data.reviews : pr_data.reviews[i] = "APPROVED"
    THEN APPROVED
    ELSE PENDING

\* the outcomes _check_pr_state can return
CheckedOutcomes ==
    {check_pr_state(tool_found, pr_data) :
        tool_found \in BOOLEAN, pr_data \in PrResponses}

\* _reconcile_all: one turn of the loop over the runs selected
reconcile_one ==
    /\ \E r \in pending_runs :
          /\ IF ticket_runs[r].pr_number = "None"
             THEN UNCHANGED ticket_runs
             ELSE \E outcome \in CheckedOutcomes :
                    ticket_runs' = IF outcome # PENDING
                                   THEN set_pr_outcome(ticket_runs, r, outcome)
                                   ELSE ticket_runs
          /\ pending_runs' = pending_runs \ {r}
    /\ UNCHANGED <<runvars, processed_tickets, calls, repo_log, poll_queue>>
    /\ UNCHANGED <<activity_log, auxvars>>

\* metrics server: POST /pr/{run_id}/approve
mark_pr_approved ==
    /\ \E run_id \in RunIds :
          ticket_runs' = set_pr_outcome(ticket_runs, run_id, APPROVED)
    /\ UNCHANGED <<runvars, processed_tickets, calls, repo_log, poll_queue,
                   pending_runs>>
    /\ UNCHANGED <<activity_log, auxvars>>

\* metrics server: POST /pr/{run_id}/reject
mark_pr_rejected ==
    /\ \E run_id \in RunIds :
          ticket_runs' = set_pr_outcome(ticket_runs, run_id, REJECTED)
    /\ UNCHANGED <<runvars, processed_tickets, calls, repo_log, poll_queue,
                   pending_runs>>
    /\ UNCHANGED <<activity_log, auxvars>>

\* an operator asks for a ticket to be processed again
call_request_reprocess ==
    /\ \E ticket_id \in Tickets :
          processed_tickets' = request_reprocess(processed_tickets, ticket_id)
    /\ UNCHANGED <<runvars, ticket_runs, calls, repo_log, poll_queue, pending_runs>>
    /\ UNCHANGED <<activity_log, auxvars>>

\* the callers and the dedup marker; the reconciler and the metrics server
\* write pr_outcome only and are left to SpecRecords
NextCallers ==
    \/ poll_fetch
    \/ poll_trigger
    \/ cli_run_single
    \/ wf_create_run
    \/ wf_mark_ticket_queued
    \/ wf_invoke_and_finalize
    \/ call_request_reprocess

SpecCallers == InitSystem /\ [][NextCallers]_vars

\* every writer of table ticket_runs; a run started by the poller writes
\* what a run started by the CLI writes
NextRecords ==
    \/ cli_run_single
    \/ wf_create_run
    \/ wf_mark_ticket_queued
    \/ wf_invoke_and_finalize
    \/ reconcile_select
    \/ reconcile_one
    \/ mark_pr_approved
    \/ mark_pr_rejected

SpecRecords == InitSystem /\ [][NextRecords]_vars

\* ---------------------------------------------------------------- marker alone
\* mark_ticket_queued and request_reprocess called in any order on the
\* repository, each mark with a fresh run id.

repo_mark_ticket_queued ==
    /\ Len(repo_log) < MaxMarkerCalls
    /\ \E ticket_id \in Tickets :
          LET run_id == Len(repo_log) + 1
          IN  /\ processed_tickets' =
                    mark_ticket_queued(processed_tickets, ticket_id, run_id)
              /\ repo_log' = Append(repo_log, [op |-> "mark", ticket |-> ticket_id,
                                               run_id |-> run_id])
    /\ UNCHANGED <<runvars, ticket_runs, calls, poll_queue, pending_runs>>
    /\ UNCHANGED <<activity_log, auxvars>>

repo_request_reprocess ==
    /\ Len(repo_log) < MaxMarkerCalls
    /\ \E ticket_id \in Tickets :
          /\ processed_tickets' = request_reprocess(processed_tickets, ticket_id)
          /\ repo_log' = Append(repo_log, [op |-> "reprocess", ticket |-> ticket_id,
                                           run_id |-> 0])
    /\ UNCHANGED <<runvars, ticket_runs, calls, poll_queue, pending_runs>>
    /\ UNCHANGED <<activity_log, auxvars>>

NextMarkers == repo_mark_ticket_queued \/ repo_request_reprocess

SpecMarkers == InitSystem /\ [][NextMarkers]_vars

\* ---------------------------------------------------------------- finalize alone
\* finalize_run applied to any final state a caller may hand it.

FinalizeInputs ==
    {[initial_state EXCEPT !.current_phase = p, !.errors = e,
                           !.is_complete_ticket = c, !.pr_result = pr] :
        p \in WorkflowPhase,
        e \in {<<>>, <<BareError(ExcText)>>,
                <<PrefixedError("planner", ExcText), BareError(ExcText)>>},
        c \in {"None", "True", "False"},
        pr \in {None,
                 Some([status |-> "skipped", pr_url |-> "None", pr_number |-> "None"]),
                 Some([status |-> "failed", pr_url |-> "", pr_number |-> "None"]),
                 Some([status |-> "created", pr_url |-> "url", pr_number |-> "None"]),
                 Some([status |-> "created", pr_url |-> "url", pr_number |-> "7"])}}

InitFinalize ==
    /\ settings = [dry_run |-> FALSE, confluence_url |-> FALSE]
    /\ pc = "finalize_call"
    /\ st \in FinalizeInputs
    /\ routed = "none"
    /\ history = <<>>
    /\ llm_invocations = <<>>
    /\ adapter_calls = <<>>
    /\ ticket_runs = create_run(NoRows, RunId, TicketId)
    /\ processed_tickets = NoRows
    /\ calls = NoRows
    /\ repo_log = <<>>
    /\ poll_queue = {}
    /\ pending_runs = {}
    /\ InitAux

finalize_call ==
    /\ pc = "finalize_call"
    /\ ticket_runs' = finalize_run(ticket_runs, RunId, st)
    /\ pc' = "finalized"
    /\ UNCHANGED <<settings, st, routed, history, llm_invocations, adapter_calls,
                   processed_tickets, sysvars, activity_log, auxvars>>

NextFinalize == finalize_call

SpecFinalize == InitFinalize /\ [][NextFinalize]_vars

\* ---------------------------------------------------------------- run_async alone
\* BaseAgent.run_async called from a stage, and from code that a coroutine
\* started by run_async itself runs (nesting).  async_stack holds the calls in
\* progress, outermost first; async_done the finished ones.

MaxDepth == 2
MaxAsyncCalls == 3

\* what a coroutine does when awaited to its end: a value, or an exception
Returns == [type |-> "return", message |-> "result"]
Raises(type, message) == [type |-> type, message |-> message]
CoroOutcomes ==
    {Returns,
     Raises("ValueError", "Ticket not found"),
     Raises("RuntimeError", "No suitable Jira MCP tool found"),
     Raises("McpError", "adapter failure")}

\* asyncio.run on a thread whose event loop is running
asyncio_run_in_running_loop ==
    Raises("RuntimeError", "asyncio.run() cannot be called from a running event loop")

ThreadPoolExecutor_shared(stack, d) ==
    IF \E i \in 1..(d - 1) : stack[i].loop /\ stack[i].pc = "running" THEN 0 ELSE 1

\* idle workers of the pool that call d of the stack submits to: the pool is
\* created inside the call with max_workers=1 and used for that call only
ThreadPoolExecutor(stack, d) == 1

run_async_reraises_result(loop, coro) == coro

\* what run_async hands to its caller once the coroutine has ended as coro
run_async(loop, coro) ==
    IF ~loop THEN coro                     \* except RuntimeError: asyncio.run(coro)
    ELSE IF coro.type = "RuntimeError"     \* future.result() raises inside the try
         THEN asyncio_run_in_running_loop
         ELSE coro

InitAsync ==
    /\ settings = [dry_run |-> FALSE, confluence_url |-> FALSE]
    /\ pc = "async"
    /\ st = initial_state
    /\ routed = "none"
    /\ history = <<>>
    /\ llm_invocations = <<>>
    /\ adapter_calls = <<>>
    /\ ticket_runs = NoRows
    /\ processed_tickets = NoRows
    /\ calls = NoRows
    /\ repo_log = <<>>
    /\ poll_queue = {}
    /\ pending_runs = {}
    /\ InitAux

asyncframe == <<settings, pc, st, routed, history, llm_invocations, adapter_calls,
                ticket_runs, processed_tickets, sysvars, activity_log,
                llm_log_file, llm_call_log, invoke_ret, ground_truth, kpi_reports,
                db_session>>

\* run_async(coro) is entered: by a stage (loop running or not on its thread),
\* or by code the coroutine of the innermost call runs (its loop is running)
run_async_enter ==
    /\ pc = "async"
    /\ Len(async_stack) < MaxDepth
    /\ Len(async_stack) + Len(async_done) < MaxAsyncCalls
    /\ async_stack # <<>> => async_stack[Len(async_stack)].pc = "running"
    /\ \E loop \in BOOLEAN, coro \in CoroOutcomes :
         /\ async_stack # <<>> => loop
         /\ async_stack' = Append(async_stack,
                [loop |-> loop, coro |-> coro,
                 pc |-> IF loop THEN "submitted" ELSE "running",
                 runs |-> IF loop THEN 0 ELSE 1])
    /\ UNCHANGED async_done
    /\ UNCHANGED asyncframe

\* the pool's worker takes the submitted asyncio.run(coro)
worker_start ==
    /\ pc = "async"
    /\ async_stack # <<>>
    /\ LET d == Len(async_stack)
       IN  /\ async_stack[d].pc = "submitted"
           /\ ThreadPoolExecutor(async_stack, d) > 0
           /\ async_stack' = [async_stack EXCEPT ![d].pc = "running",
                                                  ![d].runs = @ + 1]
    /\ UNCHANGED async_done
    /\ UNCHANGED asyncframe

\* the coroutine of the innermost call ends; run_async returns or raises
coro_completes ==
    /\ pc = "async"
    /\ async_stack # <<>>
    /\ LET d == Len(async_stack)
           f == async_stack[d]
       IN  /\ f.pc = "running"
           /\ async_stack' = SubSeq(async_stack, 1, d - 1)
           /\ async_done' = Append(async_done,
                  [loop |-> f.loop, coro |-> f.coro, runs |-> f.runs,
                   delivered |-> run_async(f.loop, f.coro)])
    /\ UNCHANGED asyncframe

NextAsync == run_async_enter \/ worker_start \/ coro_completes

SpecAsync == InitAsync /\ [][NextAsync]_vars

\* threads are scheduled and coroutines end
SpecAsyncFair == SpecAsync /\ WF_vars(NextAsync)

\* ---------------------------------------------------------------- invoke_and_log alone
\* LLMLogger.invoke_and_log called by a stage.  llm_log_file is the JSONL file,
\* llm_call_log the table llm_call_logs, invoke_ret what each call handed back.

MaxLlmCalls == 2

\* llm.invoke(messages): a response with or without usage metadata, or raises
ModelOutcomes == {"response_with_usage", "response", "raises"}
\* the parse_fn argument: absent, one that parses the response, one that raises
ParseFns == {"None", "parses", "raises"}

\* TicketRepository.save_llm_call
save_llm_call(table, record) ==
    (record.call_id :> [run_id |-> record.run_id,
                        parsed_successfully |-> record.parsed_successfully,
                        error_occurred |-> record.error_occurred]) @@ table

log_call_raises_on_db_failure(file, table, record, file_ok, db_ok) ==
    IF ~file_ok THEN [file |-> file, table |-> table, raised |-> TRUE]
    ELSE [file |-> Append(file, record),
          table |-> get_db_session(table, save_llm_call(table, record), db_ok),
          raised |-> ~db_ok]

\* LLMLogger.log_call: append to the file, then save to the table inside
\* try/except Exception
log_call(file, table, record, file_ok, db_ok) ==
    IF ~file_ok THEN [file |-> file, table |-> table, raised |-> TRUE]
    ELSE [file |-> Append(file, record),
          table |-> get_db_session(table, save_llm_call(table, record), db_ok),
          raised |-> FALSE]

\* parsed_output as invoke_and_log computes it
parsed_output(model, parse_fn) ==
    IF model = "raises" \/ parse_fn = "raises" THEN None
    ELSE IF parse_fn = "None" THEN Some("response") ELSE Some("parsed")

\* the LLMCallRecord invoke_and_log builds
LLMCallRecord(call_id, model, parse_fn) ==
    [call_id |-> call_id,
     run_id |-> RunId,
     latency_ms |-> "measured",
     total_token_count |-> IF model = "response_with_usage" THEN Some("tokens") ELSE None,
     parsed_successfully |-> model # "raises" /\ parse_fn # "raises",
     parse_error |-> IF model # "raises" /\ parse_fn = "raises" THEN Some(ExcText) ELSE None,
     error_occurred |-> model = "raises",
     error_type |-> IF model = "raises" THEN Some("Exception") ELSE None]

InitLlm ==
    /\ settings = [dry_run |-> FALSE, confluence_url |-> FALSE]
    /\ pc = "llm"
    /\ st = initial_state
    /\ routed = "none"
    /\ history = <<>>
    /\ llm_invocations = <<>>
    /\ adapter_calls = <<>>
    /\ ticket_runs = NoRows
    /\ processed_tickets = NoRows
    /\ calls = NoRows
    /\ repo_log = <<>>
    /\ poll_queue = {}
    /\ pending_runs = {}
    /\ InitAux

invoke_and_log ==
    /\ pc = "llm"
    /\ Len(invoke_ret) < MaxLlmCalls
    /\ \E model \in ModelOutcomes, parse_fn \in ParseFns, file_ok, db_ok \in BOOLEAN :
         LET record == LLMCallRecord(Len(invoke_ret) + 1, model, parse_fn)
             logged == log_call(llm_log_file, llm_call_log, record, file_ok, db_ok)
         IN  /\ llm_log_file' = logged.file
             /\ llm_call_log' = logged.table
             /\ invoke_ret' = Append(invoke_ret,
                    [model |-> model, parse_fn |-> parse_fn,
                     file_ok |-> file_ok, db_ok |-> db_ok,
                     raised |-> logged.raised,
                     output |-> IF logged.raised THEN None
                                ELSE parsed_output(model, parse_fn),
                     record |-> IF logged.raised THEN None ELSE Some(record)])
    /\ UNCHANGED <<settings, pc, st, routed, history, llm_invocations, adapter_calls,
                   ticket_runs, processed_tickets, sysvars, activity_log,
                   async_stack, async_done, ground_truth, kpi_reports, db_session>>

NextLlm == invoke_and_log

SpecLlm == InitLlm /\ [][NextLlm]_vars

\* ---------------------------------------------------------------- POC metrics alone
\* POCMetricsCollector.compute over stored data.  ticket_runs holds the rows
\* of table ticket_runs in insertion order, ground_truth the labels of table
\* ticket_ground_truth, kpi_reports the POCMetrics each compute returned.

MaxKpiRuns == 3
MaxStreakRuns == 11
MaxComputes == 2

kpi1_threshold_pct == 33
kpi2_threshold_pct == 50
kpi3_threshold == 10

\* a stored TicketRun row: a run that completed without error and opened no PR
TicketRun(ticket_id, started_at) ==
    [ticket_id |-> ticket_id, started_at |-> started_at,
     status |-> COMPLETED_COMPLETE, error_occurred |-> FALSE,
     pr_outcome |-> NOT_CREATED, ticket_deemed_incomplete |-> Some(FALSE)]

\* the same run as finalize_run stores it when the state carried errors
FailedTicketRun(ticket_id, started_at) ==
    [TicketRun(ticket_id, started_at) EXCEPT
        !.status = RUN_FAILED, !.error_occurred = TRUE,
        !.ticket_deemed_incomplete = None]

\* runs of one ticket after another, with every PR outcome
PrDatasets ==
    UNION {{[i \in 1..k |-> [TicketRun("PROJ-1", i) EXCEPT !.pr_outcome = f[i]]] :
              f \in [1..k -> PROutcome]} : k \in 0..MaxKpiRuns}

\* runs of either ticket, flagged incomplete, not flagged, or never assessed
DetectionDatasets ==
    UNION {{[i \in 1..k |->
               [TicketRun(f[i][1], i) EXCEPT
                  !.ticket_deemed_incomplete = f[i][2],
                  !.status = IF f[i][2] = Some(TRUE) THEN COMPLETED_INCOMPLETE
                             ELSE IF f[i][2] = None THEN RUNNING
                             ELSE COMPLETED_COMPLETE]] :
              f \in [1..k -> Tickets \X {None, Some(TRUE), Some(FALSE)}]} :
           k \in 0..MaxKpiRuns}

\* runs with distinct start times, each failed or error-free
StreakDatasets ==
    UNION {{[i \in 1..k |-> IF f[i] THEN TicketRun("PROJ-1", i)
                             ELSE FailedTicketRun("PROJ-1", i)] :
              f \in [1..k -> BOOLEAN]} : k \in 0..MaxStreakRuns}

\* runs some of which were inserted within the same clock reading
TieDatasets ==
    UNION {{[i \in 1..k |-> IF f[i][1] THEN TicketRun("PROJ-1", f[i][2])
                             ELSE FailedTicketRun("PROJ-1", f[i][2])] :
              f \in {g \in [1..k -> BOOLEAN \X (1..2)] :
                       \A i \in 1..(k - 1) : g[i][2] <= g[i + 1][2]}} :
           k \in 1..MaxKpiRuns}

\* tables of TicketGroundTruth labels: ticket_id -> truly_incomplete
GroundTruths ==
    UNION {[T -> BOOLEAN] : T \in SUBSET Tickets}

\* a quotient, kept as numerator and denominator; 0.0 is 0 over 1
Rate(num, den) == IF den > 0 THEN <<num, den>> ELSE <<0, 1>>
\* rate >= pct / 100
RateAtLeast(rate, pct) == rate[1] * 100 >= pct * rate[2]

\* select count(TicketRun.id) where ...
CountRuns(runs, Where(_)) == Cardinality({r \in DOMAIN runs : Where(runs[r])})

compute_kpi1_pending_resolved(runs) ==
    LET Approved(row) == row.pr_outcome \in {APPROVED, MERGED}
        Resolved(row) == row.pr_outcome \in {APPROVED, MERGED, REJECTED, PENDING}
        total_prs_approved == CountRuns(runs, Approved)
        total_prs_resolved == CountRuns(runs, Resolved)
        pr_approval_rate == Rate(total_prs_approved, total_prs_resolved)
    IN  [total_prs_approved |-> total_prs_approved,
         total_prs_resolved |-> total_prs_resolved,
         pr_approval_rate |-> pr_approval_rate,
         kpi1_met |-> RateAtLeast(pr_approval_rate, kpi1_threshold_pct)]

\* POCMetricsCollector._compute_kpi1
compute_kpi1(runs) ==
    LET Approved(row) == row.pr_outcome \in {APPROVED, MERGED}
        Resolved(row) == row.pr_outcome \in {APPROVED, MERGED, REJECTED}
        total_prs_approved == CountRuns(runs, Approved)
        total_prs_resolved == CountRuns(runs, Resolved)
        pr_approval_rate == Rate(total_prs_approved, total_prs_resolved)
    IN  [total_prs_approved |-> total_prs_approved,
         total_prs_resolved |-> total_prs_resolved,
         pr_approval_rate |-> pr_approval_rate,
         kpi1_met |-> RateAtLeast(pr_approval_rate, kpi1_threshold_pct)]

\* ticket_runs tr JOIN ticket_ground_truth gt ON tr.ticket_id = gt.ticket_id
\* WHERE tr.ticket_deemed_incomplete = 1 AND gt.truly_incomplete = 1
tp_query_join(runs, labels) ==
    {<<r, t>> \in (DOMAIN runs) \X (DOMAIN labels) :
        /\ runs[r].ticket_id = t
        /\ runs[r].ticket_deemed_incomplete = Some(TRUE)
        /\ labels[t]}

compute_kpi2_counts_runs(runs, labels) ==
    LET total_ground_truth_incomplete ==
            Cardinality({t \in DOMAIN labels : labels[t]})
        true_positive_detections ==
            IF total_ground_truth_incomplete = 0 THEN 0
            ELSE Cardinality(tp_query_join(runs, labels))
        incomplete_detection_rate ==
            Rate(true_positive_detections, total_ground_truth_incomplete)
    IN  [total_ground_truth_incomplete |-> total_ground_truth_incomplete,
         true_positive_detections |-> true_positive_detections,
         incomplete_detection_rate |-> incomplete_detection_rate,
         kpi2_note |-> IF total_ground_truth_incomplete = 0
                       THEN "No ground-truth labels found." ELSE "",
         kpi2_met |-> RateAtLeast(incomplete_detection_rate, kpi2_threshold_pct)]

\* POCMetricsCollector._compute_kpi2; COUNT(DISTINCT tr.ticket_id) of the join
compute_kpi2(runs, labels) ==
    LET total_ground_truth_incomplete ==
            Cardinality({t \in DOMAIN labels : labels[t]})
        true_positive_detections ==
            IF total_ground_truth_incomplete = 0 THEN 0
            ELSE Cardinality({p[2] : p \in tp_query_join(runs, labels)})
        incomplete_detection_rate ==
            Rate(true_positive_detections, total_ground_truth_incomplete)
    IN  [total_ground_truth_incomplete |-> total_ground_truth_incomplete,
         true_positive_detections |-> true_positive_detections,
         incomplete_detection_rate |-> incomplete_detection_rate,
         kpi2_note |-> IF total_ground_truth_incomplete = 0
                       THEN "No ground-truth labels found." ELSE "",
         kpi2_met |-> RateAtLeast(incomplete_detection_rate, kpi2_threshold_pct)]

\* the orders in which ORDER BY started_at ASC may return the rows S: rows
\* with equal started_at come in an order the query does not fix
RECURSIVE order_by_started_at(_, _)
order_by_started_at(runs, S) ==
    IF S = {} THEN {<<>>}
    ELSE UNION {{<<r>> \o rest : rest \in order_by_started_at(runs, S \ {r})} :
                  r \in {m \in S : \A q \in S : runs[m].started_at <= runs[q].started_at}}

\* the row has no recorded error
ErrorFree(row) == ~row.error_occurred /\ row.status # RUN_FAILED

\* the loop over reversed(runs), breaking at the first run with an error
RECURSIVE consecutive(_, _)
consecutive(runs, ordered) ==
    IF ordered = <<>> THEN 0
    ELSE IF ErrorFree(runs[ordered[Len(ordered)]])
         THEN 1 + consecutive(runs, SubSeq(ordered, 1, Len(ordered) - 1))
         ELSE 0

compute_kpi3_counts_all_error_free(runs, ordered) ==
    LET n == CountRuns(runs, ErrorFree)
    IN  [total_runs |-> Len(ordered),
         consecutive_error_free_runs |-> n,
         kpi3_met |-> n >= kpi3_threshold]

\* POCMetricsCollector._compute_kpi3, ordered being the rows as the query
\* returned them
compute_kpi3(runs, ordered) ==
    LET n == consecutive(runs, ordered)
    IN  [total_runs |-> Len(ordered),
         consecutive_error_free_runs |-> n,
         kpi3_met |-> n >= kpi3_threshold]

InitKpi ==
    /\ settings = [dry_run |-> FALSE, confluence_url |-> FALSE]
    /\ pc = "metrics"
    /\ st = initial_state
    /\ routed = "none"
    /\ history = <<>>
    /\ llm_invocations = <<>>
    /\ adapter_calls = <<>>
    /\ \/ /\ ticket_runs \in PrDatasets \cup StreakDatasets \cup TieDatasets
          /\ ground_truth = NoRows
       \/ /\ ticket_runs \in DetectionDatasets
          /\ ground_truth \in GroundTruths
    /\ processed_tickets = NoRows
    /\ calls = NoRows
    /\ repo_log = <<>>
    /\ poll_queue = {}
    /\ pending_runs = {}
    /\ activity_log = <<>>
    /\ async_stack = <<>>
    /\ async_done = <<>>
    /\ llm_log_file = <<>>
    /\ llm_call_log = NoRows
    /\ invoke_ret = None
    /\ kpi_reports = <<>>
    /\ db_session = None

\* POCMetricsCollector.compute: the three KPIs read inside one session
compute ==
    /\ pc = "metrics"
    /\ Len(kpi_reports) < MaxComputes
    /\ \E ordered \in order_by_started_at(ticket_runs, DOMAIN ticket_runs) :
         kpi_reports' = Append(kpi_reports,
             [kpi1 |-> compute_kpi1(ticket_runs),
              kpi2 |-> compute_kpi2(ticket_runs, ground_truth),
              kpi3 |-> compute_kpi3(ticket_runs, ordered)])
    /\ UNCHANGED <<settings, pc, st, routed, history, llm_invocations, adapter_calls,
                   ticket_runs, processed_tickets, sysvars, activity_log,
                   async_stack, async_done, llm_log_file, llm_call_log, invoke_ret,
                   ground_truth, db_session>>

NextKpi == compute

SpecKpi == InitKpi /\ [][NextKpi]_vars

\* ---------------------------------------------------------------- repository alone
\* TicketRepository operations, one after another, each inside
\* "with get_db_session() as session".  ticket_runs and processed_tickets are
\* the stored tables; db_session.work is what the session holds unflushed.

MaxRepoOps == 2

RepoOperations ==
    [name : {"create_run"}, run_id : RunIds, ticket_id : Tickets]
    \cup [name : {"mark_ticket_queued"}, run_id : RunIds, ticket_id : Tickets]
    \cup [name : {"update_run"}, run_id : RunIds, ticket_id : {"PROJ-1"}]
    \cup [name : {"request_reprocess", "is_ticket_processed"},
          run_id : {1}, ticket_id : Tickets]

\* what the body of the operation does to the rows the session holds
repo_operation(op, tables) ==
    CASE op.name = "create_run" ->
           [tables EXCEPT !.runs = create_run(@, op.run_id, op.ticket_id)]
      [] op.name = "mark_ticket_queued" ->
           [tables EXCEPT !.marks = mark_ticket_queued(@, op.ticket_id, op.run_id)]
      [] op.name = "update_run" ->
           [tables EXCEPT !.runs = set_pr_outcome(@, op.run_id, APPROVED)]
      [] op.name = "request_reprocess" ->
           [tables EXCEPT !.marks = request_reprocess(@, op.ticket_id)]
      [] OTHER -> tables

session_close_skipped(session) == session

\* session.close() in the finally clause of get_db_session
session_close(session) == [session EXCEPT !.open = FALSE]

InitRepo ==
    /\ settings = [dry_run |-> FALSE, confluence_url |-> FALSE]
    /\ pc = "repository"
    /\ st = initial_state
    /\ routed = "none"
    /\ history = <<>>
    /\ llm_invocations = <<>>
    /\ adapter_calls = <<>>
    /\ ticket_runs = NoRows
    /\ processed_tickets = NoRows
    /\ calls = NoRows
    /\ repo_log = <<>>
    /\ poll_queue = {}
    /\ pending_runs = {}
    /\ InitAux

repoframe == <<settings, pc, st, routed, history, llm_invocations, adapter_calls,
               calls, poll_queue, pending_runs, activity_log, async_stack,
               async_done, llm_log_file, llm_call_log, invoke_ret, ground_truth,
               kpi_reports>>

\* session = SessionLocal(): the operation enters the with block
session_begin ==
    /\ pc = "repository"
    /\ Len(repo_log) < MaxRepoOps
    /\ IF db_session = None THEN TRUE ELSE db_session[1].pc = "done"
    /\ \E op \in RepoOperations :
         LET stored == [runs |-> ticket_runs, marks |-> processed_tickets]
         IN  db_session' = Some([op |-> op, pc |-> "body", open |-> TRUE,
                                 outcome |-> "none", before |-> stored,
                                 work |-> stored])
    /\ UNCHANGED <<ticket_runs, processed_tickets, repo_log>>
    /\ UNCHANGED repoframe

\* the body of the with block: rows are added or changed in the session, or
\* the body raises
session_body ==
    /\ pc = "repository"
    /\ db_session # None
    /\ db_session[1].pc = "body"
    /\ \/ db_session' = Some([db_session[1] EXCEPT
                                !.work = repo_operation(db_session[1].op, @),
                                !.pc = "commit"])
       \/ db_session' = Some([db_session[1] EXCEPT !.pc = "except"])
    /\ UNCHANGED <<ticket_runs, processed_tickets, repo_log>>
    /\ UNCHANGED repoframe

\* session.commit(): the session's rows become the stored rows, or the
\* commit raises
session_commit ==
    /\ pc = "repository"
    /\ db_session # None
    /\ db_session[1].pc = "commit"
    /\ \/ /\ ticket_runs' = db_session[1].work.runs
          /\ processed_tickets' = db_session[1].work.marks
          /\ db_session' = Some([db_session[1] EXCEPT !.pc = "finally",
                                                       !.outcome = "returned"])
       \/ /\ db_session' = Some([db_session[1] EXCEPT !.pc = "except"])
          /\ UNCHANGED <<ticket_runs, processed_tickets>>
    /\ UNCHANGED repo_log
    /\ UNCHANGED repoframe

\* except Exception: session.rollback(); raise
session_rollback ==
    /\ pc = "repository"
    /\ db_session # None
    /\ db_session[1].pc = "except"
    /\ db_session' = Some([db_session[1] EXCEPT
                             !.work = [runs |-> ticket_runs, marks |-> processed_tickets],
                             !.pc = "finally", !.outcome = "raised"])
    /\ UNCHANGED <<ticket_runs, processed_tickets, repo_log>>
    /\ UNCHANGED repoframe

\* finally: session.close(); the operation returns or raises to its caller
session_finally ==
    /\ pc = "repository"
    /\ db_session # None
    /\ db_session[1].pc = "finally"
    /\ db_session' = Some([session_close(db_session[1]) EXCEPT !.pc = "done"])
    /\ repo_log' = Append(repo_log, [op |-> db_session[1].op.name,
                                     ticket |-> db_session[1].op.ticket_id,
                                     run_id |-> db_session[1].op.run_id])
    /\ UNCHANGED <<ticket_runs, processed_tickets>>
    /\ UNCHANGED repoframe

NextRepo ==
    \/ session_begin
    \/ session_body
    \/ session_commit
    \/ session_rollback
    \/ session_finally

SpecRepo == InitRepo /\ [][NextRepo]_vars

\* ---------------------------------------------------------------- concurrent starts
\* Callers in different threads or processes that saw the ticket unprocessed
\* and call run_workflow for it.  mark_ticket_queued is taken in its two
\* database steps: the session.get that reads the marker, and the commit that
\* flushes the UPDATE or the INSERT.

InitRace ==
    /\ settings = [dry_run |-> FALSE, confluence_url |-> FALSE]
    /\ pc = "system"
    /\ st = initial_state
    /\ routed = "none"
    /\ history = <<>>
    /\ llm_invocations = <<>>
    /\ adapter_calls = <<>>
    /\ ticket_runs = NoRows
    /\ processed_tickets \in
          UNION {[T -> {[last_run_id |-> 0, reprocess_requested |-> TRUE]}] :
                   T \in SUBSET Tickets}
    /\ calls = NoRows
    /\ repo_log = <<>>
    /\ poll_queue = {}
    /\ pending_runs = {}
    /\ InitAux

\* a caller finds is_ticket_processed(ticket_id) false and calls run_workflow
race_run_workflow ==
    /\ \E caller \in {"poller", "cli"}, ticket_id \in Tickets :
          /\ ~is_ticket_processed(processed_tickets, ticket_id)
          /\ Starts(caller, ticket_id)
    /\ UNCHANGED <<runvars, ticket_runs, processed_tickets, repo_log, poll_queue,
                   pending_runs>>
    /\ UNCHANGED <<activity_log, auxvars>>

\* mark_ticket_queued: existing = session.get(ProcessedTicket, ticket_id)
mark_ticket_queued_get ==
    /\ \E r \in DOMAIN calls :
          /\ calls[r].pc = "mark_ticket_queued"
          /\ calls' = [calls EXCEPT ![r] =
                 [caller |-> calls[r].caller, ticket |-> calls[r].ticket,
                  pc |-> "mark_ticket_queued_commit",
                  seen_processed |-> calls[r].seen_processed,
                  existing |-> calls[r].ticket \in DOMAIN processed_tickets]]
    /\ UNCHANGED <<runvars, ticket_runs, processed_tickets, repo_log, poll_queue,
                   pending_runs>>
    /\ UNCHANGED <<activity_log, auxvars>>

\* mark_ticket_queued: the commit flushes an UPDATE of the row read, or the
\* INSERT of a new row, which the primary key ticket_id refuses when another
\* session has inserted the row meanwhile: the IntegrityError leaves
\* run_workflow
mark_ticket_queued_commit ==
    /\ \E r \in DOMAIN calls :
          /\ calls[r].pc = "mark_ticket_queued_commit"
          /\ IF calls[r].existing \/ calls[r].ticket \notin DOMAIN processed_tickets
             THEN /\ processed_tickets' =
                        mark_ticket_queued(processed_tickets, calls[r].ticket, r)
                  /\ repo_log' = Append(repo_log, [op |-> "mark",
                                                   ticket |-> calls[r].ticket,
                                                   run_id |-> r])
                  /\ calls' = [calls EXCEPT ![r].pc = "graph"]
             ELSE /\ calls' = [calls EXCEPT ![r].pc = "raised"]
                  /\ UNCHANGED <<processed_tickets, repo_log>>
    /\ UNCHANGED <<runvars, ticket_runs, poll_queue, pending_runs>>
    /\ UNCHANGED <<activity_log, auxvars>>

NextRace ==
    \/ race_run_workflow
    \/ wf_create_run
    \/ mark_ticket_queued_get
    \/ mark_ticket_queued_commit
    \/ wf_invoke_and_finalize

SpecRace == InitRace /\ [][NextRace]_vars

\* ---------------------------------------------------------------- _check_pr_state alone
\* _check_pr_state alone: repo_log holds the call and then what it returned
InitPrState ==
    /\ settings = [dry_run |-> FALSE, confluence_url |-> FALSE]
    /\ pc = "check_pr_state"
    /\ st = initial_state
    /\ routed = "none"
    /\ history = <<>>
    /\ llm_invocations = <<>>
    /\ adapter_calls = <<>>
    /\ ticket_runs = NoRows
    /\ processed_tickets = NoRows
    /\ calls = NoRows
    /\ \E tool_found \in BOOLEAN, pr_data \in PrResponses :
          repo_log = <<[op |-> "_check_pr_state", tool_found |-> tool_found,
                        pr_data |-> pr_data]>>
    /\ poll_queue = {}
    /\ pending_runs = {}
    /\ InitAux

check_pr_state_call ==
    /\ pc = "check_pr_state"
    /\ pc' = "checked"
    /\ repo_log' = Append(repo_log,
                          [op |-> "return",
                           outcome |-> check_pr_state(repo_log[1].tool_found,
                                                      repo_log[1].pr_data)])
    /\ UNCHANGED <<settings, st, routed, history, llm_invocations, adapter_calls,
                   ticket_runs, processed_tickets, calls, poll_queue, pending_runs>>
    /\ UNCHANGED <<activity_log, auxvars>>

SpecPrState == InitPrState /\ [][check_pr_state_call]_vars

\* ---------------------------------------------------------------- properties

Executed(node) == \E i \in DOMAIN history : history[i].node = node

\* the first stage took its failure return, or raised
FetchFailed ==
    /\ history # <<>>
    /\ history[1].node = "fetch_ticket"
    /\ history[1].outcome \in {"failed", "raised"}

\* the name a stage puts in front of its errors entries
StageName(node) ==
    CASE node = "fetch_ticket" -> "ticket_fetcher"
      [] node = "completeness_check" -> "completeness_agent"
      [] node = "confluence_docs" -> "confluence_agent"
      [] node = "test_suggestion" -> "test_agent"
      [] OTHER -> node

\* C1: whenever should_stop is true, route_after_completeness returns
\* post_clarification, whatever is_complete_ticket is (true included).
C1_RoutingPrecedence ==
    (pc = "route_done" /\ st.should_stop) => routed = "post_clarification"

C1_Witness ==
    /\ pc = "route_done"
    /\ st.should_stop
    /\ st.is_complete_ticket = "True"
    /\ routed = "post_clarification"

\* C2: when completeness_check returns, repo_scout is the next stage iff
\* should_stop is false and is_complete_ticket is true, post_clarification
\* otherwise; a branch stage runs only if it was the one chosen, the two never
\* both run, and a run that reaches end_workflow ran exactly one of them.
C2_BranchStep ==
    (pc = "completeness_check" /\ history'[Len(history')].outcome # "raised")
        => IF ~st'.should_stop /\ st'.is_complete_ticket = "True"
           THEN pc' = "repo_scout"
           ELSE pc' = "post_clarification"

C2_BranchState ==
    /\ ~(Executed("repo_scout") /\ Executed("post_clarification"))
    /\ Executed("repo_scout") => routed = "repo_scout"
    /\ Executed("post_clarification") => routed = "post_clarification"
    /\ pc = "repo_scout" => routed = "repo_scout"
    /\ pc = "post_clarification" => routed = "post_clarification"
    /\ pc = "end_workflow" =>
          (Executed("repo_scout") \/ Executed("post_clarification"))

\* C2: after completeness_check exactly the branch the rule names runs
\* (repo_scout iff not should_stop and is_complete_ticket), never both.
C2_ExactlyOneBranch == [][C2_BranchStep]_vars /\ []C2_BranchState

C2_Witness ==
    /\ pc = "end_workflow"
    /\ Executed("repo_scout")
    /\ ~st.should_stop
    /\ st.is_complete_ticket = "True"

\* C3: a run whose first stage fails returns current_phase = failed,
\* should_stop = true and exactly one errors entry, prefixed ticket_fetcher.
C3_FirstStageFailureReturn ==
    (pc = "returned" /\ FetchFailed /\ history[1].outcome = "failed") =>
        /\ st.current_phase = FAILED
        /\ st.should_stop
        /\ Len(st.errors) = 1
        /\ ErrorPrefix(st.errors[1]) = "ticket_fetcher"

\* C4: in a run whose first stage fails, no later stage's result slot is ever
\* populated.
C4_NoLaterSlotAfterFetchFailure ==
    FetchFailed => \A k \in LaterSlots : st[k] = None

C4_Witness ==
    /\ pc = "returned"
    /\ FetchFailed
    /\ Executed("completeness_check")
    /\ Executed("post_clarification")
    /\ Executed("end_workflow")

\* C5: no exception escapes run_workflow.
C5_NoExceptionEscapes == pc # "raised"

\* C6: when a stage raises, the state run_workflow builds is failed, carries
\* a completion timestamp, and its errors are the errors recorded so far with
\* the exception text added after them.
C6_ExceptionStep ==
    (pc \in GraphNodes /\ pc' = "finalize_run"
        /\ history'[Len(history')].outcome = "raised") =>
        /\ st'.current_phase = FAILED
        /\ st'.completed_at # "None"
        /\ st'.errors = Append(st.errors, BareError(ExcText))

\* C6: every step in which a stage raises appends the exception text to the
\* errors recorded so far and yields a failed, timestamped state.
C6_ExceptionAppendsToErrors == [][C6_ExceptionStep]_vars

\* C7: every state run_workflow returns has current_phase completed or failed.
C7_ReturnedPhaseTerminal ==
    pc = "returned" => st.current_phase \in {COMPLETED, FAILED}

C7_Witness ==
    /\ pc = "returned"
    /\ st.current_phase = COMPLETED
    /\ \E i \in DOMAIN history :
          history[i].node = "post_clarification" /\ history[i].outcome = "failed"

\* C8: once current_phase is failed it stays failed for the rest of the run.
C8_FailedStep == st.current_phase = FAILED => st'.current_phase = FAILED

\* C8: no step of a run moves current_phase away from failed.
C8_FailedIsTerminal == [][C8_FailedStep]_vars

\* C9: once should_stop is set, no stage other than post_clarification and
\* end_workflow invokes the LLM, calls an adapter or populates a result slot.
C9_StopStep ==
    (st.should_stop /\ pc \in GraphNodes \ {"post_clarification", "end_workflow"}) =>
        /\ llm_invocations' = llm_invocations
        /\ adapter_calls' = adapter_calls
        /\ \A k \in LaterSlots : st[k] = None => st'[k] = None

\* C9: no step of a stage entered with should_stop set (other than
\* post_clarification and end_workflow) calls out or populates a slot.
C9_ShouldStopShortCircuits == [][C9_StopStep]_vars

\* C10: every failure return of every stage sets current_phase = failed and
\* should_stop = true and carries exactly one errors entry with the stage's
\* name in front.
C10_StageFailureContract ==
    \A i \in DOMAIN history :
        history[i].outcome = "failed" =>
            LET u == history[i].update
            IN  /\ {"current_phase", "should_stop", "errors"} \subseteq DOMAIN u
                /\ u.current_phase = FAILED
                /\ u.should_stop
                /\ Len(u.errors) = 1
                /\ ErrorPrefix(u.errors[1]) = StageName(history[i].node)

\* the result slots of the WorkflowState
ResultSlots == {"ticket_context"} \cup LaterSlots

\* this step merged a stage's update into the state (the stage returned)
MergeStep ==
    /\ history' # history
    /\ history'[Len(history')].outcome # "raised"

IsPrefix(s, t) == Len(s) <= Len(t) /\ SubSeq(t, 1, Len(s)) = s

\* C11: a result slot that holds a value still holds a value after the merge
\* of any stage update.
C11_SlotStep ==
    MergeStep => \A k \in ResultSlots : st[k] # None => st'[k] # None

\* C11: write-once slots: no merge of a stage update replaces a populated
\* result slot with None or an empty value.
C11_WriteOnceSlots == [][C11_SlotStep]_vars

C11_Witness ==
    /\ st.completeness_result # None
    /\ \E i \in DOMAIN history :
          /\ history[i].node = "post_clarification"
          /\ history[i].outcome = "failed"
          /\ "completeness_result" \in DOMAIN history[i].update

\* C12: across a merge each of errors, llm_call_ids and mcp_tool_calls is
\* the sequence before the merge followed by the entries the stage returned.
C12_AppendStep ==
    MergeStep =>
        \A k \in AppendKeys :
            LET u == history'[Len(history')].update
                added == IF k \in DOMAIN u THEN u[k] ELSE <<>>
            IN  /\ Len(st'[k]) >= Len(st[k])
                /\ IsPrefix(st[k], st'[k])
                /\ st'[k] = st[k] \o added

\* C12: append-only growth: errors, llm_call_ids and mcp_tool_calls never
\* shrink across a merge, and the old sequence is a prefix of the new one.
C12_AppendOnlyGrowth == [][C12_AppendStep]_vars

C12_Witness ==
    /\ Len(st.errors) >= 2
    /\ \A i \in DOMAIN history : history[i].outcome # "raised"

\* C13: should_stop is sticky-true: once true it is true in every later
\* state of the run.
C13_StickyStep == st.should_stop => st'.should_stop

\* C13: no step of a run takes should_stop from true back to false.
C13_ShouldStopSticky == [][C13_StickyStep]_vars

\* the two paths of the graph, START to END
ClarificationPath ==
    <<"fetch_ticket", "completeness_check", "post_clarification", "end_workflow">>

ProposalPath ==
    <<"fetch_ticket", "completeness_check", "repo_scout", "confluence_docs",
      "planner", "code_proposal", "test_suggestion", "pr_composer", "end_workflow">>

\* the stages invoked so far, in order
NodeSeq == [i \in DOMAIN history |-> history[i].node]

NoStageRaised == \A i \in DOMAIN history : history[i].outcome # "raised"

\* C14: the stages invoked so far are an initial part of one of the two
\* graph paths, the stage about to run is the next one on that path, no
\* stage ran twice, and a graph that ran to its end ran end_workflow last.
C14_StrictGraphOrder ==
    /\ \E path \in {ClarificationPath, ProposalPath} :
          /\ IsPrefix(NodeSeq, path)
          /\ pc \in GraphNodes =>
                (Len(NodeSeq) < Len(path) /\ path[Len(NodeSeq) + 1] = pc)
    /\ \A i, j \in DOMAIN history : history[i].node = history[j].node => i = j
    /\ (pc \in {"finalize_run", "returned"} /\ NoStageRaised) =>
          NodeSeq \in {ClarificationPath, ProposalPath}

C14_Witness ==
    /\ pc = "returned"
    /\ NoStageRaised
    /\ NodeSeq = ProposalPath

\* run_workflow is straight-line code: while a step is possible (the stage
\* invoked returns or raises) one is eventually taken
SpecFair == Spec /\ WF_vars(Next)

\* C15: a run whose graph has been entered eventually returns from
\* run_workflow, and if no stage raised it has executed end_workflow, which
\* set completed_at; the graph leaves through end_workflow only.
C15_RunTerminatesAtEndWorkflow ==
    /\ (pc = "fetch_ticket") ~>
          (/\ pc = "returned"
           /\ NoStageRaised =>
                 (Executed("end_workflow") /\ st.completed_at # "None"))
    /\ []((pc = "finalize_run" /\ NoStageRaised) =>
             (/\ history[Len(history)].node = "end_workflow"
              /\ "completed_at" \in DOMAIN history[Len(history)].update
              /\ st.completed_at # "None"))

C15_Witness ==
    /\ pc = "returned"
    /\ NoStageRaised
    /\ NodeSeq = ClarificationPath
    /\ st.completed_at # "None"

\* positions in repo_log of the calls of op on ticket_id
CallsOf(op, ticket_id) ==
    {i \in DOMAIN repo_log : repo_log[i].op = op /\ repo_log[i].ticket = ticket_id}

\* C16: after a mark_ticket_queued that follows an earlier one for the same
\* ticket with another run id, the ticket has one marker, is_ticket_processed
\* is true and last_run_id is the run id of the later call.
C16_DedupIdempotency ==
    \A i, j \in DOMAIN repo_log :
        (/\ i < j
         /\ j = Len(repo_log)
         /\ repo_log[i].op = "mark"
         /\ repo_log[j].op = "mark"
         /\ repo_log[i].ticket = repo_log[j].ticket
         /\ repo_log[i].run_id # repo_log[j].run_id) =>
            LET t == repo_log[j].ticket
            IN  /\ Cardinality({k \in DOMAIN processed_tickets : k = t}) = 1
                /\ is_ticket_processed(processed_tickets, t)
                /\ processed_tickets[t].last_run_id = repo_log[j].run_id

C16_Witness ==
    /\ Len(repo_log) = 2
    /\ repo_log[1].op = "mark"
    /\ repo_log[2].op = "mark"
    /\ repo_log[1].ticket = repo_log[2].ticket
    /\ processed_tickets[repo_log[2].ticket].last_run_id = 2

\* C17: after any sequence of mark_ticket_queued and request_reprocess calls,
\* is_ticket_processed(ticket) is true iff a marker exists with its reprocess
\* flag clear, which is the case iff the ticket has been marked and no
\* request_reprocess for it came after its last mark.
C17_ProcessedIffMarkedAndNotReprocessed ==
    \A t \in Tickets :
        /\ is_ticket_processed(processed_tickets, t) <=>
              (t \in DOMAIN processed_tickets
               /\ ~processed_tickets[t].reprocess_requested)
        /\ is_ticket_processed(processed_tickets, t) <=>
              \E m \in CallsOf("mark", t) :
                  \A i \in CallsOf("reprocess", t) : i < m
        /\ t \in DOMAIN processed_tickets <=> CallsOf("mark", t) # {}

C17_Witness ==
    \E t \in Tickets :
        /\ Len(repo_log) = 4
        /\ repo_log[1] = [op |-> "reprocess", ticket |-> t, run_id |-> 0]
        /\ repo_log[2].op = "mark" /\ repo_log[2].ticket = t
        /\ repo_log[3] = [op |-> "reprocess", ticket |-> t, run_id |-> 0]
        /\ repo_log[4].op = "mark" /\ repo_log[4].ticket = t
        /\ is_ticket_processed(processed_tickets, t)

\* some run_workflow call for ticket_id has returned
Returned(ticket_id) ==
    \E r \in DOMAIN calls : calls[r].ticket = ticket_id /\ calls[r].pc = "returned"

\* C18: the mark_ticket_queued of a run makes the ticket processed, whatever
\* the marker said before; a processed ticket stays processed in every step
\* but a request_reprocess for it; a poll does not list a processed ticket.
C18_Step ==
    \A t \in Tickets :
        /\ (\E r \in DOMAIN calls :
               /\ calls[r].ticket = t
               /\ calls[r].pc = "mark_ticket_queued"
               /\ calls'[r].pc = "graph") =>
              is_ticket_processed(processed_tickets', t)
        /\ (is_ticket_processed(processed_tickets, t)
             /\ ~is_ticket_processed(processed_tickets', t)) =>
              (/\ processed_tickets' = request_reprocess(processed_tickets, t)
               /\ calls' = calls)
        /\ (Returned(t) /\ is_ticket_processed(processed_tickets, t)) =>
              t \notin (poll_queue' \ poll_queue)

\* C18: a ticket whose run_workflow call has returned has a marker, whatever
\* the outcome of the run.
C18_State ==
    \A t \in Tickets : Returned(t) => t \in DOMAIN processed_tickets

C19_CallersConsultMarker ==
    \A r \in DOMAIN calls : ~calls[r].seen_processed

\* the step in which run_workflow call r runs finalize_run and returns
FinalizeStep(r) ==
    /\ r \in DOMAIN calls
    /\ calls[r].pc = "graph"
    /\ calls'[r].pc = "returned"

\* C20: a record appears with status running; its status changes only in
\* the finalize_run of its own run, from running to completed_complete,
\* completed_incomplete or failed.
C20_Step ==
    \A r \in DOMAIN ticket_runs' :
        IF r \notin DOMAIN ticket_runs
        THEN ticket_runs'[r].status = RUNNING
        ELSE ticket_runs'[r].status # ticket_runs[r].status =>
                /\ FinalizeStep(r)
                /\ ticket_runs[r].status = RUNNING
                /\ ticket_runs'[r].status \in
                      {COMPLETED_COMPLETE, COMPLETED_INCOMPLETE, RUN_FAILED}

\* C20: under every sequence of finalize, reconciler and metrics-server
\* operations a run record's status goes from running to one final status in
\* finalize_run and never changes again.
C20_StatusChangesOnlyAtFinalize == [][C20_Step]_vars

C20_Witness ==
    \E r \in DOMAIN ticket_runs :
        /\ calls[r].pc = "returned"
        /\ ticket_runs[r].status = COMPLETED_COMPLETE
        /\ ticket_runs[r].pr_outcome = MERGED

\* run_workflow call r is over and finalize_run has updated its record
Finalized(r) ==
    /\ r \in DOMAIN calls
    /\ r \in DOMAIN ticket_runs
    /\ calls[r].pc = "returned"
    /\ ticket_runs[r].status # RUNNING

\* C21 as stated: once finalize_run has updated a record, no step changes
\* any field of it.
C21_FrozenStep ==
    \A r \in DOMAIN ticket_runs :
        Finalized(r) => ticket_runs'[r] = ticket_runs[r]

\* C21: after finalize_run has updated a record no later operation changes
\* any of its fields.
C21_ImmutableAfterFinalize == [][C21_FrozenStep]_vars

\* C21 amended: outside the finalize_run of its own run, a step changes no
\* field of a record but pr_outcome.
C21_AmendedStep ==
    \A r \in DOMAIN ticket_runs :
        ~FinalizeStep(r) =>
            /\ r \in DOMAIN ticket_runs'
            /\ [ticket_runs'[r] EXCEPT !.pr_outcome = ticket_runs[r].pr_outcome]
                  = ticket_runs[r]

\* C21 amended: a run record is written by finalize_run once; every other
\* operation of the system (reconciler, approve/reject endpoints) changes
\* pr_outcome only.
C21_OnlyPrOutcomeChangesOutsideFinalize == [][C21_AmendedStep]_vars

C21_Witness ==
    \E r \in DOMAIN ticket_runs :
        /\ Finalized(r)
        /\ ticket_runs[r].status = COMPLETED_INCOMPLETE
        /\ ticket_runs[r].pr_outcome = APPROVED
        /\ ticket_runs[r].completed_at = "ts"

\* C22: finalize_run stores failed when errors is non-empty, otherwise
\* completed_incomplete when is_complete_ticket is false, otherwise (true or
\* None) completed_complete, and error_occurred = true exactly when failed.
C22_FinalizeClassification ==
    pc = "finalized" =>
        LET row == ticket_runs[RunId]
        IN  /\ row.status =
                  (IF st.errors # <<>> THEN RUN_FAILED
                   ELSE IF st.is_complete_ticket = "False" THEN COMPLETED_INCOMPLETE
                   ELSE COMPLETED_COMPLETE)
            /\ row.error_occurred <=> (row.status = RUN_FAILED)

C22_Witness ==
    /\ pc = "finalized"
    /\ st.errors = <<>>
    /\ st.is_complete_ticket = "None"
    /\ ticket_runs[RunId].status = COMPLETED_COMPLETE
    /\ ~ticket_runs[RunId].error_occurred

\* C23: the step that runs finalize_run returns the state the graph computed,
\* unaltered; when finalize_run raised (the failure is logged) the run record
\* is what it was before the call.
C23_FinalizeStep ==
    pc = "finalize_run" =>
        /\ pc' = "returned"
        /\ st' = st
        /\ activity_log' # activity_log => ticket_runs' = ticket_runs
        /\ activity_log' = activity_log =>
              ticket_runs' = finalize_run(ticket_runs, RunId, st)

\* C23: a finalize_run that raises is not fatal: run_workflow returns the
\* final state as computed and the record keeps its earlier values.
C23_PersistenceFailureNonFatal == [][C23_FinalizeStep]_vars

C23_Witness ==
    /\ pc = "returned"
    /\ activity_log = <<"workflow_finalize_failed">>
    /\ ticket_runs[RunId].status = RUNNING
    /\ st.current_phase = COMPLETED
    /\ st.pr_result # None

\* C24: run_async never deadlocks: whether or not a loop is running on the
\* calling thread and at any nesting depth, every call in progress returns or
\* raises: always, eventually no call is in progress.
C24_RunAsyncNeverDeadlocks == []<>(async_stack = <<>>)

\* a reentrant call made from inside a coroutine has returned while the
\* outer call is still in progress
C24_Witness ==
    /\ async_stack # <<>>
    /\ async_stack[1].loop
    /\ \E i \in DOMAIN async_done : async_done[i].loop /\ async_done[i].runs = 1

\* C25: run_async hands the caller exactly what the coroutine did (same
\* exception type and message) in the no-loop and the reentrant case alike,
\* and runs the coroutine exactly once.
C25_ExceptionPropagatedUnchanged ==
    \A i \in DOMAIN async_done :
        /\ async_done[i].delivered = async_done[i].coro
        /\ async_done[i].runs = 1

\* the records of call i in the JSONL file
FileRecordsOf(i) == {k \in DOMAIN llm_log_file : llm_log_file[k].call_id = i}

WithOutcome(o) == Cardinality({r \in DOMAIN ticket_runs : ticket_runs[r].pr_outcome = o})

\* C27: pr_approval_rate = (#approved + #merged) / (#approved + #merged +
\* #rejected), 0 when nothing is resolved; pending and not_created runs count
\* in neither; kpi1_met iff the rate is >= 0.33; two approved and one rejected
\* give 2/3 and met, no PR gives 0 and not met.
C27_Kpi1ApprovalRate ==
    \A i \in DOMAIN kpi_reports :
        LET k == kpi_reports[i].kpi1
            approved == WithOutcome(APPROVED) + WithOutcome(MERGED)
            resolved == approved + WithOutcome(REJECTED)
        IN  /\ resolved + WithOutcome(PENDING) + WithOutcome(NOT_CREATED)
                  = Cardinality(DOMAIN ticket_runs)
            /\ resolved = 0 => k.pr_approval_rate = <<0, 1>> /\ ~k.kpi1_met
            /\ resolved > 0 => k.pr_approval_rate = <<approved, resolved>>
            /\ k.kpi1_met <=> (resolved > 0 /\ approved * 100 >= 33 * resolved)
            /\ (WithOutcome(APPROVED) = 2 /\ WithOutcome(REJECTED) = 1
                   /\ WithOutcome(MERGED) = 0)
                 => k.pr_approval_rate = <<2, 3>> /\ k.kpi1_met

C27_Witness ==
    /\ kpi_reports # <<>>
    /\ WithOutcome(APPROVED) = 2
    /\ WithOutcome(REJECTED) = 1
    /\ kpi_reports[1].kpi1.pr_approval_rate = <<2, 3>>
    /\ kpi_reports[1].kpi1.kpi1_met

\* tickets labelled truly incomplete
TrulyIncomplete == {t \in DOMAIN ground_truth : ground_truth[t]}

DistinctStartTimes ==
    \A r, q \in DOMAIN ticket_runs :
        ticket_runs[r].started_at = ticket_runs[q].started_at => r = q

\* runs such that they and every run started at or after them are error-free
SuffixAtOrAfter ==
    {r \in DOMAIN ticket_runs :
        \A q \in DOMAIN ticket_runs :
            ticket_runs[q].started_at >= ticket_runs[r].started_at
                => ErrorFree(ticket_runs[q])}

\* error-free runs such that every run started strictly after them is error-free
SuffixAfter ==
    {r \in DOMAIN ticket_runs :
        /\ ErrorFree(ticket_runs[r])
        /\ \A q \in DOMAIN ticket_runs :
              ticket_runs[q].started_at > ticket_runs[r].started_at
                  => ErrorFree(ticket_runs[q])}

\* the stored runs are, in start order, one failed run then n error-free runs
FailedThenOk(n) ==
    /\ DOMAIN ticket_runs = 1..(n + 1)
    /\ DistinctStartTimes
    /\ ~ErrorFree(ticket_runs[1])
    /\ \A r \in 2..(n + 1) : ErrorFree(ticket_runs[r])

\* C29: consecutive_error_free_runs is the length of the longest suffix, in
\* ascending start-time order, of runs with no recorded error (exactly that
\* when start times are distinct, and the suffix of one ascending order
\* otherwise); [failed, ok, ok, ok] gives 3, [failed, 10 ok] gives 10, a most
\* recent run that failed gives 0; kpi3_met iff the streak is >= 10.
C29_Kpi3TrailingStreak ==
    \A i \in DOMAIN kpi_reports :
        LET k == kpi_reports[i].kpi3
            n == k.consecutive_error_free_runs
        IN  /\ Cardinality(SuffixAtOrAfter) <= n
            /\ n <= Cardinality(SuffixAfter)
            /\ DistinctStartTimes => n = Cardinality(SuffixAtOrAfter)
            /\ FailedThenOk(3) => n = 3
            /\ FailedThenOk(10) => n = 10
            /\ (\E r \in DOMAIN ticket_runs :
                    /\ ~ErrorFree(ticket_runs[r])
                    /\ \A q \in DOMAIN ticket_runs :
                          q # r => ticket_runs[q].started_at < ticket_runs[r].started_at)
                 => n = 0
            /\ k.kpi3_met <=> (n >= 10)

C29_Witness ==
    /\ kpi_reports # <<>>
    /\ FailedThenOk(10)
    /\ kpi_reports[1].kpi3.consecutive_error_free_runs = 10
    /\ kpi_reports[1].kpi3.kpi3_met

\* C30: two calls of compute against unchanged stored data return identical
\* values for all three KPIs, also when runs share a start time.
C30_ComputeDeterministic ==
    \A i, j \in DOMAIN kpi_reports : kpi_reports[i] = kpi_reports[j]

\* the ticket fetch took its failure return: the ticket was never retrieved
FetchReturnedFailure ==
    /\ history # <<>>
    /\ history[1].node = "fetch_ticket"
    /\ history[1].outcome = "failed"

\* post_clarification ran and returned
ClarificationReturned ==
    \E i \in DOMAIN history :
        history[i].node = "post_clarification" /\ history[i].outcome # "raised"

\* the comment-post call of the ticket source was invoked
CommentPostInvoked == \E i \in DOMAIN adapter_calls : adapter_calls[i] = "jira_add_comment"

\* C31: in a run whose ticket fetch failed, routing sends the run to
\* post_clarification, and that stage invokes the ticket source's
\* comment-post call.
C31_FetchFailureAttemptsComment ==
    /\ (FetchReturnedFailure /\ routed # "none") => routed = "post_clarification"
    /\ (FetchReturnedFailure /\ ClarificationReturned) => CommentPostInvoked

\* C31 amended: in a run whose ticket fetch failed, routing sends the run to
\* post_clarification, and that stage returns the error "completeness_result
\* is None" without invoking the comment-post call.
C31_FetchFailureRoutesToClarificationWithoutComment ==
    FetchReturnedFailure =>
        /\ routed # "none" => routed = "post_clarification"
        /\ ~Executed("repo_scout")
        /\ ~CommentPostInvoked
        /\ \A i \in DOMAIN history :
              (history[i].node = "post_clarification" /\ history[i].outcome # "raised")
                => /\ history[i].outcome = "failed"
                   /\ history[i].update.errors =
                        <<PrefixedError("post_clarification", "completeness_result is None")>>

C31_Witness ==
    /\ pc = "returned"
    /\ FetchReturnedFailure
    /\ routed = "post_clarification"
    /\ ClarificationReturned
    /\ ~settings.dry_run
    /\ ~CommentPostInvoked

\* the tables as stored
StoredTables == [runs |-> ticket_runs, marks |-> processed_tickets]

\* C32: each repository operation runs in its own transaction that commits
\* as a whole or rolls back as a whole: until the commit the stored records
\* are those from before the operation, an operation that raised leaves them
\* exactly so, one that returned left all of its writes; and the session is
\* closed when the operation returns or raises.
C32_TransactionPerOperation ==
    db_session # None =>
        LET s == db_session[1]
        IN  /\ s.pc \in {"body", "commit", "except"} => StoredTables = s.before
            /\ s.outcome = "raised" => StoredTables = s.before
            /\ s.outcome = "returned" => StoredTables = repo_operation(s.op, s.before)
            /\ s.pc = "done" => ~s.open /\ s.outcome \in {"returned", "raised"}

\* a mark_ticket_queued raised after an earlier operation had stored a
\* marker: the marker is as it was, the session is closed
C32_Witness ==
    /\ db_session # None
    /\ db_session[1].pc = "done"
    /\ db_session[1].outcome = "raised"
    /\ db_session[1].op.name = "mark_ticket_queued"
    /\ processed_tickets # NoRows
    /\ repo_operation(db_session[1].op, db_session[1].before) # db_session[1].before
    /\ StoredTables = db_session[1].before

\* run r has left mark_ticket_queued: it is in the graph, returned or raised
PastMark(r) == calls[r].pc \in {"graph", "returned", "raised"}

\* r1 and r2 are two run_workflow calls for one ticket whose callers both saw
\* it unprocessed, whose records were created, and that are past the marker
RacingPair(r1, r2) ==
    /\ r1 # r2
    /\ calls[r1].ticket = calls[r2].ticket
    /\ ~calls[r1].seen_processed /\ ~calls[r2].seen_processed
    /\ r1 \in DOMAIN ticket_runs /\ r2 \in DOMAIN ticket_runs
    /\ PastMark(r1) /\ PastMark(r2)

\* C33: when two callers both saw the ticket unprocessed and both call
\* run_workflow for it, in every interleaving both runs start, each has its
\* own run record (status running until it finalizes), the ticket has one
\* marker row, and its last_run_id is that of the mark_ticket_queued that
\* committed last.
C33_NoLockBothRunsStart ==
    \A r1, r2 \in DOMAIN calls :
        RacingPair(r1, r2) =>
            LET t == calls[r1].ticket
                marks == CallsOf("mark", t)
            IN  /\ calls[r1].pc # "raised" /\ calls[r2].pc # "raised"
                /\ calls[r1].pc = "graph" => ticket_runs[r1].status = RUNNING
                /\ calls[r2].pc = "graph" => ticket_runs[r2].status = RUNNING
                /\ t \in DOMAIN processed_tickets
                /\ marks # {}
                /\ \A i \in marks :
                      (\A j \in marks : j <= i)
                          => processed_tickets[t].last_run_id = repo_log[i].run_id

\* C34: a step of the reconciler (it takes a run off the pass's list) changes a
\* record only if the record's pr_outcome is pending and it has a PR number,
\* and then only its pr_outcome, to approved, rejected or merged (never to
\* pending); a pass selects only records whose pr_outcome is pending, so a
\* record the reconciler has resolved is neither selected nor changed again.
ResolvedOutcomes == {APPROVED, REJECTED, MERGED}

C34_ReconcilerChangesOnlyPendingRecords ==
    [][\A r \in DOMAIN ticket_runs :
          LET old == ticket_runs[r]
              new == ticket_runs'[r]
          IN  /\ (r \in pending_runs /\ r \notin pending_runs' /\ new # old) =>
                    /\ old.pr_outcome = PENDING
                    /\ old.pr_number # "None"
                    /\ new.pr_outcome \in ResolvedOutcomes
                    /\ new = [old EXCEPT !.pr_outcome = new.pr_outcome]
              /\ (r \notin pending_runs /\ r \in pending_runs') =>
                    /\ old.pr_outcome = PENDING
                    /\ new = old]_vars

\* C35: _check_pr_state returns merged if the PR is merged, whatever its state
\* and reviews; otherwise rejected if its state is closed; otherwise approved
\* if some review has state APPROVED; otherwise pending; and pending whenever
\* the lookup tool is missing, the response is not a record or the call raises.
PrLookupUsable == repo_log[1].tool_found /\ repo_log[1].pr_data.kind = "dict"

HasApprovedReview ==
    \E i \in DOMAIN repo_log[1].pr_data.reviews :
        repo_log[1].pr_data.reviews[i] = "APPROVED"

C35_CheckPrStatePrecedence ==
    pc = "checked" =>
        LET pr_data == repo_log[1].pr_data
            outcome == repo_log[2].outcome
        IN  /\ ~PrLookupUsable => outcome = PENDING
            /\ (PrLookupUsable /\ pr_data.merged) => outcome = MERGED
            /\ (PrLookupUsable /\ ~pr_data.merged /\ pr_data.state = "closed") =>
                    outcome = REJECTED
            /\ (PrLookupUsable /\ ~pr_data.merged /\ pr_data.state # "closed"
                    /\ HasApprovedReview) => outcome = APPROVED
            /\ (PrLookupUsable /\ ~pr_data.merged /\ pr_data.state # "closed"
                    /\ ~HasApprovedReview) => outcome = PENDING

C35_Witness ==
    /\ pc = "checked"
    /\ PrLookupUsable
    /\ repo_log[1].pr_data.merged
    /\ repo_log[1].pr_data.state = "closed"
    /\ HasApprovedReview
    /\ repo_log[2].outcome = MERGED

\* C36: finalize_run stores pr_outcome = pending exactly when the final state
\* has a pr_result whose pr_url is non-empty, and not_created otherwise (no
\* pr_result, or a pr_result without url); so get_pending_pr_runs returns the
\* record only when the run created a PR and its outcome is not yet resolved.
FinalStateHasPrUrl ==
    /\ st.pr_result # None
    /\ st.pr_result[1].pr_url \notin {"None", ""}

C36_PendingIffPrUrl ==
    pc = "finalized" =>
        LET row == ticket_runs[RunId]
        IN  /\ row.pr_outcome = PENDING <=> FinalStateHasPrUrl
            /\ ~FinalStateHasPrUrl => row.pr_outcome = NOT_CREATED
            /\ RunId \in get_pending_pr_runs(ticket_runs) =>
                    /\ FinalStateHasPrUrl
                    /\ row.pr_outcome \notin ResolvedOutcomes

C36_Witness ==
    /\ pc = "finalized"
    /\ st.pr_result # None
    /\ st.pr_result[1].pr_url = ""
    /\ ticket_runs[RunId].pr_outcome = NOT_CREATED
    /\ RunId \notin get_pending_pr_runs(ticket_runs)

\* C37: completeness_check writes is_complete_ticket = true exactly when the
\* model's decision is complete and its score is at least the threshold, and
\* false when the decision is complete with a lower score or the decision is
\* incomplete with any score; when the stage fails or raises it does not write
\* is_complete_ticket, which stays unknown.
C37_CompleteIffDecisionAndThreshold ==
    \A i \in DOMAIN history :
        history[i].node = "completeness_check" =>
            LET update == history[i].update
            IN  /\ IF history[i].outcome = "ok"
                   THEN LET result == update.completeness_result[1]
                            passes == result.completeness_score >= completeness_threshold
                        IN  /\ (result.decision = "complete" /\ passes) =>
                                    update.is_complete_ticket = "True"
                            /\ (result.decision = "complete" /\ ~passes) =>
                                    update.is_complete_ticket = "False"
                            /\ result.decision = "incomplete" =>
                                    update.is_complete_ticket = "False"
                   ELSE "is_complete_ticket" \notin DOMAIN update
                /\ i = Len(history) =>
                      st.is_complete_ticket =
                          (IF history[i].outcome = "ok" THEN update.is_complete_ticket
                           ELSE "None")

C37_Witness ==
    \E i \in DOMAIN history :
        /\ history[i].node = "completeness_check"
        /\ history[i].outcome = "ok"
        /\ history[i].update.completeness_result[1].decision = "complete"
        /\ history[i].update.completeness_result[1].completeness_score =
               completeness_threshold
        /\ history[i].update.is_complete_ticket = "True"
        /\ st.is_complete_ticket = "True"

\* C38: in every state of a run total_llm_calls is the length of llm_call_ids;
\* a step that appends one call id raises the counter by exactly one, and a
\* stage whose update is a failure (also one whose LLM call was made and
\* logged) changes neither.
C38_LlmCounterMatchesCallIds ==
    [][/\ st.total_llm_calls = Len(st.llm_call_ids)
       /\ st'.total_llm_calls = Len(st'.llm_call_ids)
       /\ Len(st'.llm_call_ids) = Len(st.llm_call_ids) + 1 =>
             st'.total_llm_calls = st.total_llm_calls + 1
       /\ (Len(history') = Len(history) + 1
             /\ history'[Len(history')].outcome = "failed") =>
             /\ st'.llm_call_ids = st.llm_call_ids
             /\ st'.total_llm_calls = st.total_llm_calls
             /\ "llm_call_ids" \notin DOMAIN history'[Len(history')].update
             /\ "total_llm_calls" \notin DOMAIN history'[Len(history')].update]_vars

C38_Witness ==
    /\ st.total_llm_calls = 3
    /\ Len(st.llm_call_ids) = 3
    /\ Len(llm_invocations) = 4
    /\ history[Len(history)].outcome = "failed"

\* C39: in dry-run mode no comment is posted and no label is applied to the
\* ticket on any path; when a completeness result is present the
\* clarification stage returns just current_phase = completed (no tool-call
\* entry, no error), and completeness_result.jira_comment_posted stays false.
JiraWriteInvoked ==
    \E i \in DOMAIN adapter_calls :
        adapter_calls[i] \in {"jira_add_comment", "jira_update_issue"}

C39_DryRunPostsNothing ==
    settings.dry_run =>
        /\ ~JiraWriteInvoked
        /\ \A i \in DOMAIN st.mcp_tool_calls : st.mcp_tool_calls[i] # "jira_add_comment"
        /\ st.completeness_result # None =>
              /\ ~st.completeness_result[1].jira_comment_posted
              /\ \A i \in DOMAIN history :
                    (history[i].node = "post_clarification"
                        /\ history[i].outcome # "raised") =>
                        /\ history[i].outcome = "ok"
                        /\ history[i].update = [current_phase |-> COMPLETED]

C39_Witness ==
    /\ settings.dry_run
    /\ st.completeness_result # None
    /\ ~st.completeness_result[1].jira_comment_posted
    /\ history # <<>>
    /\ history[Len(history)].node = "post_clarification"
    /\ history[Len(history)].outcome = "ok"
    /\ st.current_phase = COMPLETED
    /\ st.errors = <<>>

====
